---- MODULE Spec2Model ----
(***************************************************************************)
(* The paginated search / filter / cache engine of the monitoring room     *)
(* (src/pages/CheckerMonitoringRoom.tsx): the Filter Compiler and the      *)
(* Search Resolver Client (fetchRawData and its helpers), the Page Cache   *)
(* with its neighbour prefetcher (loadPageData, prefetchNeighbors), the    *)
(* Mutation Coordinator (savePeriodicity, softDeleteVatNumber) and the     *)
(* context-menu row actions.                                               *)
(*                                                                         *)
(* Strings are sequences of one-character strings, so that trimming,       *)
(* stripping, upper-casing and pattern tests are computed as the code      *)
(* computes them.  An asynchronous function is a record in a collection of *)
(* requests in flight; it carries the values its closure captured when it  *)
(* was called (React handlers read the state of the render that created    *)
(* them), and one action per await resumes it.                             *)
(***************************************************************************)
EXTENDS Integers, Sequences, FiniteSets, TLC

\* ------------------------------------------------------------------ bounds

\* monitored entries in the Record Store (uuids 1..NumEntries)
NumEntries == 3
\* page sizes offered by the selector are 1..MaxPageSize (stand-ins for 15, 25, 50, 100)
MaxPageSize == 2
\* primary page loads that may be in flight together
MaxLoads == 2
\* neighbour-prefetch loops that may be running together
MaxChains == 1
\* user events (clicks, keystrokes, selections) and failing requests in one behaviour
MaxEvents == 3

\* savePeriodicity calls awaiting their PATCH together
MaxSaves == 2
\* context-menu handlers awaiting a service together
MaxActions == 2
\* number_of_checks a recheck may still raise
MaxChecks == 3

\* null, for an enumerated value, a string, an identifier and a number
NULL == "null"

NullStr == <<"NUL">>

NullUuid == 0

NullInt == 0 - 1

\* ------------------------------------------------------------------ characters

UpperAlpha ==
  <<"A","B","C","D","E","F","G","H","I","J","K","L","M",
    "N","O","P","Q","R","S","T","U","V","W","X","Y","Z">>

LowerAlpha ==
  <<"a","b","c","d","e","f","g","h","i","j","k","l","m",
    "n","o","p","q","r","s","t","u","v","w","x","y","z">>

DigitChars == {"0","1","2","3","4","5","6","7","8","9"}

WhiteSpace == {" "}

Range(s) == {s[i] : i \in DOMAIN s}

UpperChars == Range(UpperAlpha)

LowerChars == Range(LowerAlpha)

IsUpperChar(c) == c \in UpperChars

IsLowerChar(c) == c \in LowerChars

IsAlnumChar(c) == IsUpperChar(c) \/ IsLowerChar(c) \/ c \in DigitChars

ToUpperChar(c) ==
  IF IsLowerChar(c) THEN UpperAlpha[CHOOSE i \in DOMAIN LowerAlpha : LowerAlpha[i] = c] ELSE c

ToLowerChar(c) ==
  IF IsUpperChar(c) THEN LowerAlpha[CHOOSE i \in DOMAIN UpperAlpha : UpperAlpha[i] = c] ELSE c

ToUpperCase(s) == [i \in DOMAIN s |-> ToUpperChar(s[i])]

ToLowerCase(s) == [i \in DOMAIN s |-> ToLowerChar(s[i])]

RECURSIVE TrimStart(_)
TrimStart(s) ==
  IF s # <<>> /\ Head(s) \in WhiteSpace THEN TrimStart(Tail(s)) ELSE s

RECURSIVE TrimEnd(_)
TrimEnd(s) ==
  IF s # <<>> /\ s[Len(s)] \in WhiteSpace THEN TrimEnd(SubSeq(s, 1, Len(s) - 1)) ELSE s

\* String.prototype.trim
Trim(s) == TrimEnd(TrimStart(s))

IsNotMetaChar(c) == c \notin {"%", "_"}

IsNotWhiteSpace(c) == c \notin WhiteSpace

\* term.replace(/\s+/g, '')
CompactWhitespace(s) == SelectSeq(s, IsNotWhiteSpace)

\* case-insensitive substring test: column ILIKE '%term%' (term holds no % or _)
ILike(field, term) ==
  /\ field # NullStr
  /\ \E i \in 0..(Len(field) - Len(term)) :
       ToLowerCase(SubSeq(field, i + 1, i + Len(term))) = ToLowerCase(term)

\* ------------------------------------------------------------------ helpers of the component

Periodicities == {"daily", "weekly", "monthly", "inactive"}

normalizePeriodicity(value) ==
  IF value \in Periodicities THEN value ELSE "daily"

sanitizeSearchTerm(value) ==
  LET stripped == SelectSeq(Trim(value), IsNotMetaChar)
  IN  [i \in DOMAIN stripped |-> IF stripped[i] = "," THEN " " ELSE stripped[i]]

normalizeVatInput(value) == ToUpperCase(SelectSeq(value, IsAlnumChar))

isVatLike(value) ==
  /\ Len(value) >= 4
  /\ Len(value) <= 16
  /\ IsUpperChar(value[1])
  /\ IsUpperChar(value[2])
  /\ \A i \in 3..Len(value) : IsUpperChar(value[i]) \/ value[i] \in DigitChars

isIsoCountryCodeLike(value) ==
  /\ Len(value) = 2
  /\ IsUpperChar(value[1])
  /\ IsUpperChar(value[2])

RECURSIVE toUniqueUuids(_)
toUniqueUuids(values) ==
  IF values = <<>> THEN <<>>
  ELSE LET n == Len(values)
           init == toUniqueUuids(SubSeq(values, 1, n - 1))
           v == values[n]
       IN  IF v = NullUuid \/ v \in Range(init) THEN init ELSE Append(init, v)

intersectUuidsKeepsLeft(left, right) == left

intersectUuids(left, right) ==
  LET keep(v) == v \in Range(right) IN SelectSeq(left, keep)

\* ------------------------------------------------------------------ the remote collections

UUIDs == 1..NumEntries

DigitSeq == <<"0","1","2","3","4","5","6","7","8","9">>

\* vat_checker_numbers: the columns no operation of this view writes
EntryCountry(u) == IF u % 2 = 1 THEN <<"F","R">> ELSE <<"D","E">>

EntryVatNumber(u) == <<"4", "0", DigitSeq[(u % 10) + 1]>>

\* the day of created_at (UTC), growing with the uuid
EntryCreatedAt(u) == <<"2","0","2","4","-","0","1","-","0", DigitSeq[(u % 10) + 1]>>

EntryLastCheckDate(u) ==
  IF u % 2 = 1 THEN <<"2","0","2","4","-","0","2","-","2","9">> ELSE NullStr

EntryRequesterCountry(u) == IF u <= 2 THEN <<"F","R">> ELSE NullStr

EntryRequesterNumber(u) == IF u <= 2 THEN <<"1","2">> ELSE NullStr

\* the jsonb reference blob, without its status key (see the variable store)
EntryReference(u) ==
  CASE u % 3 = 1 -> [name |-> <<"A","b">>]
    [] u % 3 = 2 -> [counterpart_address_city |-> <<"B","e">>]
    [] OTHER     -> [nom_complet |-> <<"C","d">>]

RefField(u, key) ==
  IF key \in DOMAIN EntryReference(u) THEN EntryReference(u)[key] ELSE NullStr

\* vat_checker_numbers_checks: rows 1 and 2 belong to entry 1, row 3 to entry 2, row 4 has no owner
ChecksTable ==
  << [vat_number_uuid |-> 1,    name |-> <<"A","b">>, address |-> NullStr,
      vat_number_check |-> <<"4","0","1">>, country_code_check |-> <<"F","R">>],
     [vat_number_uuid |-> 1,    name |-> <<"A","b">>, address |-> NullStr,
      vat_number_check |-> <<"4","0","1">>, country_code_check |-> <<"F","R">>],
     [vat_number_uuid |-> 2,    name |-> NullStr,     address |-> <<"B","e">>,
      vat_number_check |-> <<"4","0","2">>, country_code_check |-> <<"D","E">>],
     [vat_number_uuid |-> NullUuid, name |-> <<"C","d">>, address |-> NullStr,
      vat_number_check |-> <<"4","0","9">>, country_code_check |-> <<"F","R">>] >>

\* the columns this view writes: periodicity, reference->>status, number_of_checks
StoreRows ==
  [UUIDs -> [periodicity : Periodicities,
             status : {NULL, "deleted", "ok"},
             number_of_checks : {NullInt} \cup (0..MaxChecks)]]

InitialStore ==
  [u \in UUIDs |->
     CASE u % 4 = 1 -> [periodicity |-> "daily",    status |-> "ok",      number_of_checks |-> 1]
       [] u % 4 = 2 -> [periodicity |-> "weekly",   status |-> "ok",      number_of_checks |-> 0]
       [] u % 4 = 3 -> [periodicity |-> "yearly",   status |-> NULL,      number_of_checks |-> 2]
       [] OTHER     -> [periodicity |-> "inactive", status |-> "deleted", number_of_checks |-> 1]]

\* one row of select('*'): the fields of MonitoredNumber the view reads or writes
RowOf(st, u) ==
  [uuid |-> u, periodicity |-> st[u].periodicity, status |-> st[u].status,
   number_of_checks |-> st[u].number_of_checks]

\* SetToSeqDesc(S): the elements of a set of uuids, newest (largest) first:
\* order('created_at', { ascending: false }), created_at growing with the uuid
RECURSIVE SetToSeqDesc(_)
SetToSeqDesc(S) ==
  IF S = {} THEN <<>>
  ELSE LET m == CHOOSE x \in S : \A y \in S : y <= x
       IN  <<m>> \o SetToSeqDesc(S \ {m})

RECURSIVE SetToSeqAsc(_)
SetToSeqAsc(S) ==
  IF S = {} THEN <<>>
  ELSE LET m == CHOOSE x \in S : \A y \in S : x <= y
       IN  <<m>> \o SetToSeqAsc(S \ {m})

\* ------------------------------------------------------------------ Filter Compiler

StatusFilters == {"__all__", "pending", "inactive", "active", "deleted"}

\* the value '__all__' of the requester selector
AllRequesters == <<"_","_","a","l","l","_","_">>

\* the column keys of COL_KEYS whose filters are modelled
FilterKeys ==
  {"country_code", "vat_number", "entity_name", "number_of_checks", "periodicity",
   "created_at", "last_check_date"}

PeriodicityText ==
  [daily    |-> <<"d","a","i","l","y">>,
   weekly   |-> <<"w","e","e","k","l","y">>,
   monthly  |-> <<"m","o","n","t","h","l","y">>,
   inactive |-> <<"i","n","a","c","t","i","v","e">>]

NaN == 0 - 2

DigitValue(c) == (CHOOSE i \in DOMAIN DigitSeq : DigitSeq[i] = c) - 1

RECURSIVE DecimalValue(_)
DecimalValue(s) ==
  IF s = <<>> THEN 0
  ELSE 10 * DecimalValue(SubSeq(s, 1, Len(s) - 1)) + DigitValue(s[Len(s)])

\* Number(valStr), for a trimmed non-empty string of digits, letters and punctuation
\* (no sign, point or exponent): the decimal value, or NaN
ParseNumber(s) ==
  IF \A i \in DOMAIN s : s[i] \in DigitChars THEN DecimalValue(s) ELSE NaN

\* /^\d{4}-\d{2}-\d{2}$/
isIsoDate(value) ==
  /\ Len(value) = 10
  /\ \A i \in {1, 2, 3, 4, 6, 7, 9, 10} : value[i] \in DigitChars
  /\ value[5] = "-"
  /\ value[8] = "-"

\* the elements of a string that isIsoDate accepts
DateYear(isoDate) == DecimalValue(SubSeq(isoDate, 1, 4))

DateMonth(isoDate) == DecimalValue(SubSeq(isoDate, 6, 7))

DateDay(isoDate) == DecimalValue(SubSeq(isoDate, 9, 10))

\* the order of two such strings as the store compares the instants they denote
DateNumber(isoDate) == DateYear(isoDate) * 10000 + DateMonth(isoDate) * 100 + DateDay(isoDate)

IsLeapYear(y) == (y % 4 = 0 /\ y % 100 # 0) \/ y % 400 = 0

DaysInMonth(y, m) ==
  IF m = 2 THEN (IF IsLeapYear(y) THEN 29 ELSE 28)
  ELSE IF m \in {4, 6, 9, 11} THEN 30 ELSE 31

\* String(n).padStart(width, '0')
RECURSIVE PadStart(_, _)
PadStart(n, width) ==
  IF width = 0 THEN <<>>
  ELSE Append(PadStart(n \div 10, width - 1), DigitSeq[(n % 10) + 1])

FormatIsoDate(y, m, d) == PadStart(y, 4) \o <<"-">> \o PadStart(m, 2) \o <<"-">> \o PadStart(d, 2)

\* Date.prototype.toISOString of an invalid date throws RangeError: Invalid time value
RangeError == <<"RangeError">>

\* new Date(`${isoDate}T00:00:00.000Z`) of a string with a month outside 01..12 or a
\* day outside 01..31 is an invalid date; setUTCDate keeps it invalid and toISOString
\* throws. A day 29..31 that the month does not have is carried into the next month,
\* as V8 parses it. Years stay below 9999.
getNextIsoDate(isoDate) ==
  LET y == DateYear(isoDate)
      m == DateMonth(isoDate)
      d == DateDay(isoDate) + 1
  IN  IF m \notin 1..12 \/ DateDay(isoDate) \notin 1..31 THEN RangeError
      ELSE IF d <= DaysInMonth(y, m) THEN FormatIsoDate(y, m, d)
      ELSE IF m < 12 THEN FormatIsoDate(y, m + 1, d - DaysInMonth(y, m))
      ELSE FormatIsoDate(y + 1, 1, d - DaysInMonth(y, m))

\* the predicates applyDirectColumnFilters adds to the query for one column: none
\* when the value is blank, is the entity-name pseudo-column, or fails its rule
ColumnPredicates(key, value) ==
  LET valStr == Trim(value)
  IN  IF valStr = <<>> \/ key = "entity_name" THEN {}
      ELSE CASE key = "number_of_checks" ->
                  IF ParseNumber(valStr) # NaN
                  THEN {[column |-> key, op |-> "eq", num |-> ParseNumber(valStr), text |-> <<>>]}
                  ELSE {}
             [] key = "last_check_date" ->
                  IF isIsoDate(valStr)
                  THEN {[column |-> key, op |-> "eq", num |-> 0, text |-> valStr]}
                  ELSE {}
             [] key = "created_at" ->
                  \* gte `${valStr}T00:00:00.000Z` and lt `${nextDate}T00:00:00.000Z`
                  IF isIsoDate(valStr) /\ getNextIsoDate(valStr) # RangeError
                  THEN {[column |-> key, op |-> "gte", num |-> 0, text |-> valStr],
                        [column |-> key, op |-> "lt", num |-> 0, text |-> getNextIsoDate(valStr)]}
                  ELSE {}
             [] key = "country_code" ->
                  IF isIsoCountryCodeLike(ToUpperCase(valStr))
                  THEN {[column |-> key, op |-> "eq", num |-> 0, text |-> ToUpperCase(valStr)]}
                  ELSE {}
             [] key = "periodicity" ->
                  IF \E p \in Periodicities : PeriodicityText[p] = ToLowerCase(valStr)
                  THEN {[column |-> key, op |-> "eq", num |-> 0, text |-> ToLowerCase(valStr)]}
                  ELSE {}
             [] OTHER -> {[column |-> key, op |-> "ilike", num |-> 0, text |-> valStr]}

applyDirectColumnFilters(inputFilters) ==
  UNION {ColumnPredicates(key, inputFilters[key]) : key \in DOMAIN inputFilters}

\* lines 526-533: the call of getNextIsoDate throws out of applyDirectColumnFilters
applyDirectColumnFiltersThrows(inputFilters) ==
  /\ "created_at" \in DOMAIN inputFilters
  /\ isIsoDate(Trim(inputFilters["created_at"]))
  /\ getNextIsoDate(Trim(inputFilters["created_at"])) = RangeError

\* the Record Store deciding one column predicate on entry u
Satisfies(pred, st, u) ==
  CASE pred.column = "number_of_checks" ->
         st[u].number_of_checks # NullInt /\ st[u].number_of_checks = pred.num
    [] pred.column = "country_code" -> EntryCountry(u) = pred.text
    [] pred.column = "periodicity" ->
         /\ st[u].periodicity \in DOMAIN PeriodicityText
         /\ PeriodicityText[st[u].periodicity] = pred.text
    [] pred.column = "last_check_date" -> EntryLastCheckDate(u) = pred.text
    [] pred.column = "created_at" ->
         IF pred.op = "gte"
         THEN DateNumber(EntryCreatedAt(u)) >= DateNumber(pred.text)
         ELSE DateNumber(EntryCreatedAt(u)) < DateNumber(pred.text)
    [] OTHER -> ILike(EntryVatNumber(u), pred.text)

\* NOT (reference->>status = 'deleted'): a row without a status key yields
\* null, which the store treats as not satisfied
NotDeleted(st, u) == st[u].status # NULL /\ st[u].status # "deleted"

\* lines 716-732, as the Record Store decides them on entry u
StatusPredicate(statusFilter, st, u) ==
  CASE statusFilter = "deleted"  -> st[u].status = "deleted"
    [] statusFilter = "inactive" -> st[u].periodicity = "inactive" /\ NotDeleted(st, u)
    [] statusFilter = "pending"  ->
         /\ st[u].periodicity # "inactive"
         /\ NotDeleted(st, u)
         /\ (st[u].number_of_checks = NullInt \/ st[u].number_of_checks = 0)
    [] statusFilter = "active"   ->
         /\ st[u].periodicity # "inactive"
         /\ NotDeleted(st, u)
         /\ st[u].number_of_checks # NullInt
         /\ st[u].number_of_checks > 0
    [] OTHER -> TRUE

\* ------------------------------------------------------------------ Search Resolver Client

RefKeysSearch ==
  {"name", "nom_complet", "counterpart_name", "address", "counterpart_address",
   "counterpart_address_line", "counterpart_address_city",
   "counterpart_address_postal_code", "counterpart_address_country"}

RefKeysEntity == {"name", "nom_complet", "counterpart_name"}

fetchMatchingVatUuidsFromVatNumbers(term, mode, failed) ==
  IF term = <<>> THEN <<>>
  ELSE LET compactVatTerm == CompactWhitespace(term)
           normalizedCountryTerm == ToUpperCase(term)
           matches(u) ==
             IF mode = "search"
             THEN \/ ILike(EntryVatNumber(u), term)
                  \/ ILike(EntryVatNumber(u), compactVatTerm)
                  \/ (isIsoCountryCodeLike(normalizedCountryTerm)
                        /\ EntryCountry(u) = normalizedCountryTerm)
                  \/ \E k \in RefKeysSearch : ILike(RefField(u, k), term)
             ELSE \E k \in RefKeysEntity : ILike(RefField(u, k), term)
       IN  IF failed THEN <<>>
           ELSE toUniqueUuids(SetToSeqAsc({u \in UUIDs : matches(u)}))

fetchMatchingVatUuidsFromChecks(term, failed) ==
  IF term = <<>> THEN <<>>
  ELSE LET compactVatTerm == CompactWhitespace(term)
           normalizedCountryTerm == ToUpperCase(term)
           matches(c) ==
             /\ c.vat_number_uuid # NullUuid
             /\ \/ ILike(c.name, term)
                \/ ILike(c.address, term)
                \/ ILike(c.vat_number_check, term)
                \/ ILike(c.vat_number_check, compactVatTerm)
                \/ (isIsoCountryCodeLike(normalizedCountryTerm)
                      /\ c.country_code_check = normalizedCountryTerm)
           owner(c) == c.vat_number_uuid
           rows == SelectSeq(ChecksTable, matches)
       IN  IF failed THEN <<>>
           ELSE toUniqueUuids([i \in DOMAIN rows |-> owner(rows[i])])

resolveSearchTermAllOrNothing(term, errs) ==
  IF errs.searchVat \/ errs.searchChk THEN <<>>
  ELSE toUniqueUuids(fetchMatchingVatUuidsFromVatNumbers(term, "search", FALSE)
                       \o fetchMatchingVatUuidsFromChecks(term, FALSE))

resolveVatUuidsForSearchTerm(term, errs) ==
  toUniqueUuids(fetchMatchingVatUuidsFromVatNumbers(term, "search", errs.searchVat)
                  \o fetchMatchingVatUuidsFromChecks(term, errs.searchChk))

resolveVatUuidsForEntityFilter(term, errs) ==
  toUniqueUuids(fetchMatchingVatUuidsFromVatNumbers(term, "entity", errs.entityVat)
                  \o fetchMatchingVatUuidsFromChecks(term, errs.entityChk))

NoLookupErrors ==
  [searchVat |-> FALSE, searchChk |-> FALSE, entityVat |-> FALSE, entityChk |-> FALSE]

LookupErrors ==
  [searchVat : BOOLEAN, searchChk : BOOLEAN, entityVat : BOOLEAN, entityChk : BOOLEAN]

\* ------------------------------------------------------------------ fetchRawData

\* lines 745-748: the entity allow-list replaces a null constraint, or is
\* intersected with the allow-list of the search term
WithEntityUuids(afterSearch, entityUuids) ==
  IF afterSearch[1]
  THEN <<TRUE, intersectUuids(afterSearch[2], entityUuids)>>
  ELSE <<TRUE, entityUuids>>

\* lines 737-749, for the sanitized search term and the trimmed entity filter
ResolveConstraint(searchTerm, entityFilterValue, errs) ==
  IF Len(entityFilterValue) > 0
  THEN WithEntityUuids(
         IF Len(searchTerm) > 0
         THEN <<TRUE, resolveVatUuidsForSearchTerm(searchTerm, errs)>>
         ELSE <<FALSE, <<>> >>,
         resolveVatUuidsForEntityFilter(sanitizeSearchTerm(entityFilterValue), errs))
  ELSE IF Len(searchTerm) > 0
       THEN <<TRUE, resolveVatUuidsForSearchTerm(searchTerm, errs)>>
       ELSE <<FALSE, <<>> >>

\* constrainedUuids: <<FALSE, _>> is null (no constraint), <<TRUE, ids>> an allow-list
ConstrainedUuids(q, errs) ==
  ResolveConstraint(sanitizeSearchTerm(q.search), Trim(q.filters["entity_name"]), errs)

EmptyResult == [data |-> <<>>, count |-> 0, storeQueried |-> FALSE, thrown |-> FALSE]

\* fetchRawData rejected before any request was sent
ThrownResult == [data |-> <<>>, count |-> 0, storeQueried |-> FALSE, thrown |-> TRUE]

\* lines 704-714: what the requester selector does to the query: "all" adds nothing,
\* "match" adds the two equalities, "none" returns the empty result at once
RequesterGateOpen(requester) ==
  IF requester = AllRequesters THEN "all"
  ELSE IF isVatLike(normalizeVatInput(requester)) THEN "match" ELSE "all"

RequesterGate(requester) ==
  IF requester = AllRequesters THEN "all"
  ELSE IF isVatLike(normalizeVatInput(requester)) THEN "match" ELSE "none"

\* lines 751-754: an allow-list that is empty ends fetchRawData before the store query
ShortCircuitNever(uuids) == FALSE

ShortCircuitOnEmpty(uuids) == Len(uuids) = 0

\* lines 758-760: order('created_at', descending) and range(from, to) over the
\* rows the query selects, with the exact count
QueryWindow(ordered, from, to, st) ==
  [data |-> [i \in 1..((IF to + 1 < Len(ordered) THEN to + 1 ELSE Len(ordered)) - from) |->
               RowOf(st, ordered[from + i])],
   count |-> Len(ordered),
   storeQueried |-> TRUE,
   thrown |-> FALSE]

\* the entries the composed query selects in a store holding st
SelectedEntries(predicates, gate, normalizedRequester, constrained, statusFilter, st) ==
  {u \in UUIDs :
     /\ \A pred \in predicates : Satisfies(pred, st, u)
     /\ \/ gate = "all"
        \/ /\ gate = "match"
           /\ EntryRequesterCountry(u) = SubSeq(normalizedRequester, 1, 2)
           /\ EntryRequesterNumber(u) = SubSeq(normalizedRequester, 3, Len(normalizedRequester))
     /\ StatusPredicate(statusFilter, st, u)
     /\ (constrained[1] => \E i \in DOMAIN constrained[2] : constrained[2][i] = u)}

\* lines 751-765, once the allow-list is resolved
QueryStore(q, pageNum, pageSize, st, gate, constrained) ==
  IF constrained[1] /\ ShortCircuitOnEmpty(constrained[2])
  THEN EmptyResult
  ELSE QueryWindow(SetToSeqDesc(SelectedEntries(applyDirectColumnFilters(q.filters), gate,
                                                normalizeVatInput(q.requesterFilter),
                                                constrained, q.statusFilter, st)),
                   (pageNum - 1) * pageSize,
                   (pageNum - 1) * pageSize + pageSize - 1,
                   st)

\* lines 704-765, once the requester selector is decided
AfterRequesterGate(q, pageNum, pageSize, st, errs, gate) ==
  IF gate = "none"
  THEN EmptyResult
  ELSE QueryStore(q, pageNum, pageSize, st, gate, ConstrainedUuids(q, errs))

\* the result of fetchRawData(pageNum) called in a render whose state is q and pageSize,
\* served by a store holding st; storeQueried tells whether the Record Store query was sent
fetchRawData(q, pageNum, pageSize, st, errs) ==
  IF applyDirectColumnFiltersThrows(q.filters)
  THEN ThrownResult
  ELSE AfterRequesterGate(q, pageNum, pageSize, st, errs, RequesterGate(q.requesterFilter))

\* ------------------------------------------------------------------ state

VARIABLES
  store,               \* the Record Store: uuid -> the columns this view writes
  search,              \* useState('') (213)
  filters,             \* useState({}) (211): column key -> value
  requesterFilter,     \* useState('__all__') (215)
  statusFilter,        \* useState('__all__') (217)
  page,                \* useState(1) (204)
  pageSize,            \* useState(15) (205)
  totalCount,          \* useState(0) (206)
  totalPages,          \* useState(1) (207)
  data,                \* useState([]) (199): the displayed rows, with the request they came from
  loading,             \* useState(true) (200)
  error,               \* useState(null) (201)
  dataCache,           \* useState({}) (220)
  dataCacheRef,        \* useRef({}) (221)
  selectedNumber,      \* useState(null) (224): <<>> or <<row>>
  periodicityDraft,    \* useState('daily') (225)
  updatingPeriodicity, \* useState(false) (226)
  deletingVatNumber,   \* useState(false) (227)
  actionToast,         \* useState(null) (238)
  vatContextMenu,      \* useState(null) (239): <<>> or <<row>>
  contextAction,       \* useState(null) (240)
  debounceTimer,       \* the pending setTimeout of the filter effect: <<>> or <<closure>>
  loads,               \* calls of loadPageData awaiting fetchRawData
  chains,              \* calls of prefetchNeighbors awaiting fetchRawData
  saves,               \* calls of savePeriodicity awaiting the PATCH
  deletes,             \* calls of softDeleteVatNumber awaiting the store update
  actions,             \* context-menu handlers awaiting a service
  fetched,             \* the last direct call of fetchRawData and what it returned
  lastOp,              \* history: the operation that produced this state
  events               \* history: user events so far

queryVars == <<search, filters, requesterFilter, statusFilter>>

pageVars == <<page, pageSize, totalCount, totalPages, data, loading, error>>

cacheVars == <<dataCache, dataCacheRef>>

detailVars == <<selectedNumber, periodicityDraft, updatingPeriodicity, deletingVatNumber>>

menuVars == <<actionToast, vatContextMenu, contextAction>>

asyncVars == <<debounceTimer, loads, chains, saves, deletes, actions>>

vars ==
  <<store, queryVars, pageVars, cacheVars, detailVars, menuVars, asyncVars,
    fetched, lastOp, events>>

\* the filter state a render holds, as the closures created in that render see it
QueryState ==
  [search |-> search, filters |-> filters,
   requesterFilter |-> requesterFilter, statusFilter |-> statusFilter]

NoFilters == [k \in FilterKeys |-> <<>>]

InitialQuery ==
  [search |-> <<>>, filters |-> NoFilters,
   requesterFilter |-> AllRequesters, statusFilter |-> "__all__"]

PageSizeOptions == 1..MaxPageSize

\* useState(15): the first (smallest) of PAGE_SIZE_OPTIONS
InitialPageSize == CHOOSE s \in PageSizeOptions : \A t \in PageSizeOptions : s <= t

\* the request a displayed or cached page came from (history, not read by the program)
NoSource == [q |-> InitialQuery, pageSize |-> 0, page |-> 0]

EmptyCache == <<>>

\* what the three locations of an entry held when a mutation was requested (history)
NoSnapshot == [data |-> <<>>, cache |-> <<>>, detail |-> <<>>]

\* history of one step: the operation, its target, the pages it called fetchRawData
\* for, and the neighbour-prefetch loop it started, resumed or finished; source is
\* the request of the page a completion stored, or the state a page-size change left
Op(name) ==
  [op |-> name, uuid |-> NullUuid, page |-> 0, requested |-> {}, prefetch |-> <<>>,
   count |-> 0, pageSize |-> 0, rejected |-> FALSE, source |-> NoSource,
   before |-> NoSnapshot]

\* ------------------------------------------------------------------ fetchRawData, called directly

QuerySearchValues == { <<>>, <<"_","%">>, <<"z","z">>, <<"f","r">>, <<"b","e">> }

QueryEntityValues == { <<>>, <<"a","b">>, <<"_"," ">>, <<"B","e">> }

QueryCountryValues == { <<>>, <<"f","r">> }

QueryRequesterValues ==
  { AllRequesters, <<"f","r","-","1","2">>, <<"F","R","1">>, <<"1","2","F","R">> }

\* values of the other column filters: some pass the rule of their column, some do not
QueryColumnValues ==
  [number_of_checks |-> { <<"1">>, <<"x","1">> },
   created_at       |-> { <<"2","0","2","4","-","0","1","-","0","2">>,
                          <<"2","0","2","4","-","1","3","-","0","1">>,
                          <<"0","2","/","0","1">> },
   last_check_date  |-> { <<"2","0","2","4","-","0","2","-","2","9">>,
                          <<"2","0","2","4","-","1","3","-","0","1">>,
                          <<"2","0","2","4","-","2","-","2","9">> },
   periodicity      |-> { <<"D","a","i","l","y">>, <<"y","e","a","r","l","y">> },
   country_code     |-> { <<"f","r","a">> }]

\* the entity and country filters in every combination, or one other column filter
QueryFilterValues ==
  { [k \in FilterKeys |->
       IF k = "entity_name" THEN e ELSE IF k = "country_code" THEN c ELSE <<>>] :
      e \in QueryEntityValues, c \in QueryCountryValues }
  \cup UNION { { [NoFilters EXCEPT ![k] = v] : v \in QueryColumnValues[k] } :
                 k \in DOMAIN QueryColumnValues }

Idle ==
  /\ page = 1
  /\ totalCount = 0
  /\ totalPages = 1
  /\ data = [rows |-> <<>>, source |-> NoSource]
  /\ loading = TRUE
  /\ error = NULL
  /\ dataCache = EmptyCache
  /\ dataCacheRef = EmptyCache
  /\ selectedNumber = <<>>
  /\ periodicityDraft = "daily"
  /\ updatingPeriodicity = FALSE
  /\ deletingVatNumber = FALSE
  /\ actionToast = <<>>
  /\ vatContextMenu = <<>>
  /\ contextAction = NULL
  /\ debounceTimer = <<>>
  /\ chains = <<>>
  /\ saves = <<>>
  /\ deletes = <<>>
  /\ actions = <<>>
  /\ events = 0

\* the stores fetchRawData is called on: the initial one, and one in which entry 1
\* has been soft-deleted (lines 1008-1016)
QueryStores ==
  { InitialStore,
    [InitialStore EXCEPT ![1] = [periodicity |-> "inactive", status |-> "deleted",
                                 number_of_checks |-> InitialStore[1].number_of_checks]] }

\* a render of the component with any filter state, before fetchRawData is called
InitQuery ==
  /\ store \in QueryStores
  /\ search \in QuerySearchValues
  /\ filters \in QueryFilterValues
  /\ requesterFilter \in QueryRequesterValues
  /\ statusFilter \in StatusFilters
  /\ pageSize \in PageSizeOptions
  /\ Idle
  /\ loads = <<>>
  /\ fetched = <<>>
  /\ lastOp = Op("init")

CallFetchRawData(pageNum, errs) ==
  /\ fetched = <<>>
  /\ fetched' = << [pageNum |-> pageNum, errs |-> errs,
                    result |-> fetchRawData(QueryState, pageNum, pageSize, store, errs),
                    constrainedUuids |-> ConstrainedUuids(QueryState, errs)] >>
  /\ lastOp' = [Op("fetchRawData") EXCEPT !.page = pageNum]
  /\ UNCHANGED <<store, queryVars, pageVars, cacheVars, detailVars, menuVars, asyncVars, events>>

NextQuery ==
  \E pageNum \in 1..2, errs \in LookupErrors : CallFetchRawData(pageNum, errs)

SpecQuery == InitQuery /\ [][NextQuery]_vars

\* ------------------------------------------------------------------ Page Cache

PageData(rows, q, ps, p) == [rows |-> rows, source |-> [q |-> q, pageSize |-> ps, page |-> p]]

\* dataCacheRef.current[p] = pageData; setDataCache(prev => ({ ...prev, [p]: pageData }))
updateCache(cache, p, pageData) ==
  [x \in (DOMAIN cache) \cup {p} |-> IF x = p THEN pageData ELSE cache[x]]

setDataCacheIgnored(value) == EmptyCache

\* the setter of the reactive cache state (line 220): the next render holds value
setDataCache(value) == value

\* dataCacheRef.current = {}; setDataCache({})
clearCacheKeepsPages(cache) == cache

clearCache(cache) == EmptyCache

\* !dataCacheRef.current[p] is false: the page is in the cache (an empty page is an array, truthy)
IsCached(cache, p) == p \in DOMAIN cache

CeilDiv(a, b) == (a + b - 1) \div b

\* Math.ceil(count / pageSize) || 1
ComputedTotalPages(count, ps) == IF CeilDiv(count, ps) = 0 THEN 1 ELSE CeilDiv(count, ps)

\* ------------------------------------------------------------------ prefetchNeighbors

\* lines 857-861: the neighbours in the order the loop pushes them
NeighborsOfOffset(currentPage, maxPage, i) ==
  (IF currentPage - i > 0 THEN <<currentPage - i>> ELSE <<>>)
    \o (IF currentPage + i <= maxPage THEN <<currentPage + i>> ELSE <<>>)

Neighbors(currentPage, maxPage) ==
  NeighborsOfOffset(currentPage, maxPage, 1) \o NeighborsOfOffset(currentPage, maxPage, 2)

\* a call of prefetchNeighbors: the neighbours still to examine, the page whose
\* fetchRawData it awaits (0: the loop has ended), and the closure's filter state
NewChain(currentPage, maxPage, q, ps) ==
  [origin |-> currentPage, maxPage |-> maxPage, q |-> q, pageSize |-> ps,
   todo |-> Neighbors(currentPage, maxPage), awaiting |-> 0, result |-> EmptyResult,
   examined |-> <<>>]

\* lines 863-872: the loop runs on, skipping cached pages, to its next await or to its end
RECURSIVE RunPrefetch(_, _, _)
RunPrefetch(chain, cacheRef, st) ==
  IF chain.todo = <<>> THEN [chain EXCEPT !.awaiting = 0, !.result = EmptyResult]
  ELSE LET p == Head(chain.todo)
           seen(req) == [page |-> p, wasCached |-> p \in DOMAIN cacheRef, requested |-> req]
       IN  IF IsCached(cacheRef, p)
           THEN RunPrefetch([chain EXCEPT !.todo = Tail(@),
                                          !.examined = Append(@, seen(FALSE))],
                            cacheRef, st)
           ELSE [chain EXCEPT !.todo = Tail(@), !.awaiting = p,
                              !.result = fetchRawData(chain.q, p, chain.pageSize, st, NoLookupErrors),
                              !.examined = Append(@, seen(TRUE))]

prefetchNeighbors(currentPage, maxPage, q, ps, cacheRef, st) ==
  RunPrefetch(NewChain(currentPage, maxPage, q, ps), cacheRef, st)

ChainSummary(chain) ==
  [origin |-> chain.origin, maxPage |-> chain.maxPage, examined |-> chain.examined,
   done |-> chain.awaiting = 0]

\* the loops that are still awaiting a page
Running(chain) == IF chain.awaiting = 0 THEN <<>> ELSE <<chain>>

RemoveAt(seq, i) == SubSeq(seq, 1, i - 1) \o SubSeq(seq, i + 1, Len(seq))

\* ------------------------------------------------------------------ loadPageData

\* the values a closure created in the current render captures
Closure(q, ps, tp, pg, tc) ==
  [q |-> q, pageSize |-> ps, totalPages |-> tp, page |-> pg, totalCount |-> tc]

\* awaitedBy: the handler that awaits this call of loadPageData, if one does
NewLoad(targetPage, cl, st) ==
  [targetPage |-> targetPage, q |-> cl.q, pageSize |-> cl.pageSize,
   result |-> fetchRawData(cl.q, targetPage, cl.pageSize, st, NoLookupErrors),
   awaitedBy |-> NULL]

CacheHitNever(targetPage, forceRefresh, cacheRef) == FALSE

\* line 825: !forceRefresh && dataCacheRef.current[targetPage]
CacheHit(targetPage, forceRefresh, cacheRef) ==
  ~forceRefresh /\ targetPage \in DOMAIN cacheRef

\* lines 823-834: loadPageData up to its first await.  hit: the cached page is shown
\* and the neighbours are prefetched; otherwise the load is put in flight
loadPageData(targetPage, forceRefresh, cl, cacheRef, st) ==
  IF CacheHit(targetPage, forceRefresh, cacheRef)
  THEN [hit |-> TRUE, load |-> <<>>,
        chain |-> <<prefetchNeighbors(targetPage, cl.totalPages, cl.q, cl.pageSize, cacheRef, st)>>]
  ELSE [hit |-> FALSE, load |-> <<NewLoad(targetPage, cl, st)>>, chain |-> <<>>]

\* no call of loadPageData
NothingStarted == [hit |-> FALSE, load |-> <<>>, chain |-> <<>>]

RequestedBy(started) ==
  {started.load[i].targetPage : i \in DOMAIN started.load}
    \cup {started.chain[i].awaiting : i \in {j \in DOMAIN started.chain : started.chain[j].awaiting # 0}}

RunningOf(started) == IF started.chain = <<>> THEN <<>> ELSE Running(started.chain[1])

SummaryOf(started) == [i \in DOMAIN started.chain |-> ChainSummary(started.chain[i])]

\* the page effect (267-270) after setPage(newPage): loadPageData(page) of the new render
PageEffect(newPage, cl, cacheRef, name) ==
  \E started \in {loadPageData(newPage, FALSE, cl, cacheRef, store)} :
      /\ Len(loads) + Len(started.load) <= MaxLoads
      /\ Len(chains) + Len(RunningOf(started)) <= MaxChains
      /\ page' = newPage
      /\ IF started.hit
         THEN /\ data' = cacheRef[newPage]
              /\ loading' = FALSE
              /\ error' = error
         ELSE /\ data' = data
              /\ loading' = TRUE
              /\ error' = NULL
      /\ loads' = loads \o started.load
      /\ chains' = chains \o RunningOf(started)
      /\ lastOp' = [Op(name) EXCEPT !.page = newPage, !.requested = RequestedBy(started),
                                    !.prefetch = SummaryOf(started)]

\* setPage(newPage) from a handler: nothing happens when the page does not change
GoToPage(newPage, name) ==
  /\ events < MaxEvents
  /\ events' = events + 1
  /\ IF newPage = page
     THEN /\ lastOp' = [Op(name) EXCEPT !.page = newPage]
          /\ UNCHANGED <<page, data, loading, error, loads, chains>>
     ELSE PageEffect(newPage, Closure(QueryState, pageSize, totalPages, newPage, totalCount),
                     dataCacheRef, name)
  /\ UNCHANGED <<store, queryVars, pageSize, totalCount, totalPages, cacheVars, detailVars,
                 menuVars, debounceTimer, saves, deletes, actions, fetched>>

handlePrevPage ==
  /\ page # 1 /\ ~loading
  /\ GoToPage(IF page - 1 > 1 THEN page - 1 ELSE 1, "handlePrevPage")

handleNextPage ==
  /\ page < totalPages /\ ~loading
  /\ GoToPage(IF page + 1 < totalPages THEN page + 1 ELSE totalPages, "handleNextPage")

\* parseInt(pageInput): NaN, or an integer
PageInputs == {NaN, 0, 2, 3, NumEntries + 1}

handlePageInputSubmit(input) ==
  LET atLeastOne == IF input = NaN \/ input < 1 THEN 1 ELSE input
      newPage == IF atLeastOne > totalPages THEN totalPages ELSE atLeastOne
  IN  GoToPage(newPage, "handlePageInputSubmit")

\* ------------------------------------------------------------------ filter and page-size effects

\* a change of search, filters, requesterFilter or statusFilter: the effect of
\* lines 272-283 replaces the pending timer by one created in the new render
FilterChanged(name) ==
  /\ events < MaxEvents
  /\ events' = events + 1
  /\ debounceTimer' = << Closure(QueryState', pageSize, totalPages, page, totalCount) >>
  /\ lastOp' = Op(name)
  /\ UNCHANGED <<store, pageVars, cacheVars, detailVars, menuVars, loads, chains, saves,
                 deletes, actions, fetched>>

setSearch(value) ==
  /\ value # search
  /\ search' = value
  /\ UNCHANGED <<filters, requesterFilter, statusFilter>>
  /\ FilterChanged("setSearch")

handleFilterChange(key, value) ==
  /\ value # filters[key]
  /\ filters' = [filters EXCEPT ![key] = value]
  /\ UNCHANGED <<search, requesterFilter, statusFilter>>
  /\ FilterChanged("handleFilterChange")

setRequesterFilter(value) ==
  /\ value # requesterFilter
  /\ requesterFilter' = value
  /\ UNCHANGED <<search, filters, statusFilter>>
  /\ FilterChanged("setRequesterFilter")

setStatusFilter(value) ==
  /\ value # statusFilter
  /\ statusFilter' = value
  /\ UNCHANGED <<search, filters, requesterFilter>>
  /\ FilterChanged("setStatusFilter")

\* the timer of lines 277-281 fires: setPage(1); clearCache(); loadPageData(1, true)
\* of the render that set the timer; then, when the page changed, the page effect
DebounceFire ==
  /\ debounceTimer # <<>>
  /\ \E cleared \in {clearCache(dataCacheRef)} :
     \E forced \in {loadPageData(1, TRUE, debounceTimer[1], cleared, store)} :
     \E effect \in {IF page # 1
                     THEN loadPageData(1, FALSE,
                                       Closure(QueryState, pageSize, totalPages, 1, totalCount),
                                       cleared, store)
                     ELSE NothingStarted} :
         /\ Len(loads) + Len(forced.load) + Len(effect.load) <= MaxLoads
         /\ Len(chains) + Len(RunningOf(effect)) <= MaxChains
         /\ page' = 1
         /\ dataCacheRef' = cleared
         /\ dataCache' = setDataCache(clearCache(dataCache))
         /\ data' = IF effect.hit THEN cleared[1] ELSE data
         /\ loading' = TRUE
         /\ error' = NULL
         /\ loads' = loads \o forced.load \o effect.load
         /\ chains' = chains \o RunningOf(effect)
         /\ lastOp' = [Op("debounce") EXCEPT !.page = 1,
                                             !.requested = RequestedBy(forced) \cup RequestedBy(effect),
                                             !.count = Len(forced.load) + Len(effect.load)]
  /\ debounceTimer' = <<>>
  /\ UNCHANGED <<store, queryVars, pageSize, totalCount, totalPages, detailVars, menuVars,
                 saves, deletes, actions, fetched, events>>

\* setPageSize(size) and the effect of lines 285-300
setPageSize(size) ==
  /\ size # pageSize
  /\ events < MaxEvents
  /\ events' = events + 1
  /\ \E cleared \in {clearCache(dataCacheRef)} :
     \E started \in {loadPageData(1, page = 1,
                                   Closure(QueryState, size, totalPages, 1, totalCount),
                                   cleared, store)} :
         /\ Len(loads) + Len(started.load) <= MaxLoads
         /\ Len(chains) + Len(RunningOf(started)) <= MaxChains
         /\ pageSize' = size
         /\ page' = 1
         /\ dataCacheRef' = cleared
         /\ dataCache' = setDataCache(clearCache(dataCache))
         /\ data' = IF started.hit THEN cleared[1] ELSE data
         /\ loading' = ~started.hit
         /\ error' = IF started.hit THEN error ELSE NULL
         /\ loads' = loads \o started.load
         /\ chains' = chains \o RunningOf(started)
         /\ lastOp' = [Op("setPageSize") EXCEPT
                         !.page = 1, !.requested = RequestedBy(started),
                         !.source = [q |-> QueryState, pageSize |-> pageSize, page |-> page]]
  /\ UNCHANGED <<store, queryVars, totalCount, totalPages, detailVars, menuVars,
                 debounceTimer, saves, deletes, actions, fetched>>

\* ------------------------------------------------------------------ completions of fetchRawData

\* the index of the context-menu handler that awaits its reload
Reloading == CHOOSE i \in DOMAIN actions : actions[i].stage = "reload"

\* lines 1145-1146 and 1150: loadPageData has returned to handleForceCheckFromContextMenu
ForceCheckResumes ==
  /\ actionToast' = << [kind |-> "force", uuid |-> actions[Reloading].target.uuid] >>
  /\ vatContextMenu' = <<>>
  /\ contextAction' = NULL
  /\ actions' = RemoveAt(actions, Reloading)

setErrorDropsMessage(message) == NULL

\* line 847: setError(err.message)
setError(message) == message

\* lines 836-851: fetchRawData of a primary load returns (ok) or throws
LoadComplete(i, ok) ==
  LET ld == loads[i]
      pageData == PageData(ld.result.data, ld.q, ld.pageSize, ld.targetPage)
      computedTotalPages == ComputedTotalPages(ld.result.count, ld.pageSize)
      cacheRef == updateCache(dataCacheRef, ld.targetPage, pageData)
  IN  \E chain \in {prefetchNeighbors(ld.targetPage, computedTotalPages, ld.q, ld.pageSize,
                                       cacheRef, store)} :
      /\ loads' = RemoveAt(loads, i)
      /\ loading' = FALSE
      /\ IF ok
         THEN /\ ~ld.result.thrown
              /\ Len(chains) + Len(Running(chain)) <= MaxChains
              /\ data' = pageData
              /\ totalCount' = ld.result.count
              /\ totalPages' = computedTotalPages
              /\ dataCacheRef' = cacheRef
              /\ dataCache' = setDataCache(updateCache(dataCache, ld.targetPage, pageData))
              /\ chains' = chains \o Running(chain)
              /\ error' = error
              /\ lastOp' = [Op("loadOk") EXCEPT
                              !.page = ld.targetPage,
                              !.requested = IF chain.awaiting = 0 THEN {} ELSE {chain.awaiting},
                              !.prefetch = <<ChainSummary(chain)>>,
                              !.count = ld.result.count, !.pageSize = ld.pageSize,
                              !.source = pageData.source]
              /\ events' = events
         ELSE /\ ld.result.storeQueried \/ ld.result.thrown
              /\ events < MaxEvents
              /\ events' = events + 1
              /\ error' = setError("Fetch error")
              /\ lastOp' = [Op("loadFailed") EXCEPT !.page = ld.targetPage]
              /\ UNCHANGED <<data, totalCount, totalPages, cacheVars, chains>>
      /\ IF ld.awaitedBy = NULL
         THEN UNCHANGED <<menuVars, actions>>
         ELSE ForceCheckResumes
      /\ UNCHANGED <<store, queryVars, page, pageSize, detailVars, debounceTimer,
                     saves, deletes, fetched>>

SurfacePrefetchError(pageError) == "Fetch error"

\* lines 869-871: catch (e) { /* Ignore prefetch errors */ } leaves the page error as it is
IgnorePrefetchError(pageError) == pageError

\* lines 866-870: fetchRawData of a neighbour returns (ok) or throws; the loop goes on
PrefetchComplete(c, ok) ==
  LET ch == chains[c]
      pageData == PageData(ch.result.data, ch.q, ch.pageSize, ch.awaiting)
      cacheRef == IF ok THEN updateCache(dataCacheRef, ch.awaiting, pageData) ELSE dataCacheRef
  IN  \E next \in {RunPrefetch(ch, cacheRef, store)} :
      /\ ok => ~ch.result.thrown
      /\ ok \/ ((ch.result.storeQueried \/ ch.result.thrown) /\ events < MaxEvents)
      /\ events' = IF ok THEN events ELSE events + 1
      /\ dataCacheRef' = cacheRef
      /\ dataCache' = IF ok THEN setDataCache(updateCache(dataCache, ch.awaiting, pageData))
                            ELSE dataCache
      /\ chains' = SubSeq(chains, 1, c - 1) \o Running(next) \o SubSeq(chains, c + 1, Len(chains))
      /\ lastOp' = [Op(IF ok THEN "prefetchOk" ELSE "prefetchFailed") EXCEPT
                      !.page = ch.awaiting,
                      !.requested = IF next.awaiting = 0 THEN {} ELSE {next.awaiting},
                      !.prefetch = <<ChainSummary(next)>>,
                      !.source = pageData.source]
      /\ error' = IF ok THEN error ELSE IgnorePrefetchError(error)
      /\ UNCHANGED <<store, queryVars, page, pageSize, totalCount, totalPages, data, loading,
                     detailVars, menuVars, debounceTimer, loads, saves, deletes, actions,
                     fetched>>

\* ------------------------------------------------------------------ the page view

\* the component after its mount effects: loadPageData(1) of the first render is in flight
Init ==
  /\ store = InitialStore
  /\ search = <<>>
  /\ filters = NoFilters
  /\ requesterFilter = AllRequesters
  /\ statusFilter = "__all__"
  /\ pageSize = InitialPageSize
  /\ Idle
  /\ loads = << NewLoad(1, Closure(InitialQuery, InitialPageSize, 1, 1, 0), InitialStore) >>
  /\ fetched = <<>>
  /\ lastOp = Op("mount")

SearchValues == { <<>>, <<"b","e">> }

StatusValues == {"__all__", "deleted"}

RequesterValues == { AllRequesters, <<"F","R","1","2">> }

CountryValues == { <<>>, <<"f","r">> }

Next ==
  \/ \E v \in SearchValues : setSearch(v)
  \/ \E v \in CountryValues : handleFilterChange("country_code", v)
  \/ \E v \in RequesterValues : setRequesterFilter(v)
  \/ \E v \in StatusValues : setStatusFilter(v)
  \/ DebounceFire
  \/ handlePrevPage
  \/ handleNextPage
  \/ \E n \in PageInputs : handlePageInputSubmit(n)
  \/ \E s \in PageSizeOptions : setPageSize(s)
  \/ \E i \in DOMAIN loads, ok \in BOOLEAN : LoadComplete(i, ok)
  \/ \E c \in DOMAIN chains, ok \in BOOLEAN : PrefetchComplete(c, ok)

Spec == Init /\ [][Next]_vars

\* ------------------------------------------------------------------ Mutation Coordinator

\* the detail record is set to a row of the displayed page
setSelectedNumber(i) ==
  /\ i \in DOMAIN data.rows
  /\ selectedNumber # <<data.rows[i]>>
  /\ selectedNumber' = <<data.rows[i]>>
  /\ lastOp' = [Op("setSelectedNumber") EXCEPT !.uuid = data.rows[i].uuid]
  /\ UNCHANGED <<store, queryVars, pageVars, cacheVars, periodicityDraft, updatingPeriodicity,
                 deletingVatNumber, menuVars, asyncVars, fetched, events>>

setPeriodicityDraft(value) ==
  /\ selectedNumber # <<>>
  /\ value # periodicityDraft
  /\ periodicityDraft' = value
  /\ lastOp' = Op("setPeriodicityDraft")
  /\ UNCHANGED <<store, queryVars, pageVars, cacheVars, selectedNumber, updatingPeriodicity,
                 deletingVatNumber, menuVars, asyncVars, fetched, events>>

\* items.map(item => item.uuid === uuid ? { ...item, periodicity } : item)
updateItems(items, uuid, periodicity) ==
  [i \in DOMAIN items |->
     IF items[i].uuid = uuid THEN [items[i] EXCEPT !.periodicity = periodicity] ELSE items[i]]

\* lines 927-930: nextCache, built from dataCacheRef.current
PeriodicityInCache(cacheRef, uuid, periodicity) ==
  [p \in DOMAIN cacheRef |-> [cacheRef[p] EXCEPT !.rows = updateItems(@, uuid, periodicity)]]

\* lines 918-933, as what the four locations hold afterwards
applyPeriodicityLocally(uuid, periodicity, rows, detail, cacheRef) ==
  [data   |-> updateItems(rows, uuid, periodicity),
   detail |-> IF detail # <<>> /\ detail[1].uuid = uuid
              THEN <<[detail[1] EXCEPT !.periodicity = periodicity]>> ELSE detail,
   cache  |-> PeriodicityInCache(cacheRef, uuid, periodicity)]

\* lines 935-949: savePeriodicity up to the PATCH it awaits
savePeriodicity ==
  /\ selectedNumber # <<>>
  /\ LET uuid == selectedNumber[1].uuid
         currentPeriodicity == normalizePeriodicity(selectedNumber[1].periodicity)
         nextPeriodicity == periodicityDraft
         applied == applyPeriodicityLocally(uuid, nextPeriodicity, data.rows, selectedNumber,
                                            dataCacheRef)
     IN  /\ currentPeriodicity # nextPeriodicity
         /\ Len(saves) < MaxSaves
         /\ events < MaxEvents
         /\ events' = events + 1
         /\ updatingPeriodicity' = TRUE
         /\ error' = NULL
         /\ data' = [data EXCEPT !.rows = applied.data]
         /\ selectedNumber' = applied.detail
         /\ dataCacheRef' = applied.cache
         /\ dataCache' = setDataCache(applied.cache)
         /\ saves' = Append(saves, [uuid |-> uuid, currentPeriodicity |-> currentPeriodicity,
                                    nextPeriodicity |-> nextPeriodicity,
                                    before |-> [data |-> data.rows, cache |-> dataCacheRef,
                                                detail |-> selectedNumber]])
         /\ lastOp' = [Op("savePeriodicity") EXCEPT !.uuid = uuid]
  /\ UNCHANGED <<store, queryVars, page, pageSize, totalCount, totalPages, loading,
                 periodicityDraft, deletingVatNumber, menuVars, debounceTimer, loads, chains,
                 deletes, actions, fetched>>

\* payload?.vat_number?.periodicity of a PATCH response
PatchPayloads == {NULL, "monthly"}

\* lines 962-981: the PATCH is answered; payload is the periodicity the backend
\* reports (NULL: none), ok is response.ok
SaveComplete(i, ok, payload) ==
  LET sv == saves[i]
      stored == IF payload = NULL THEN sv.nextPeriodicity ELSE payload
      confirmedPeriodicity == normalizePeriodicity(stored)
      final == IF ~ok THEN sv.currentPeriodicity ELSE confirmedPeriodicity
      reapply == ~ok \/ confirmedPeriodicity # sv.nextPeriodicity
      applied == applyPeriodicityLocally(sv.uuid, final, data.rows, selectedNumber, dataCacheRef)
  IN  /\ saves' = RemoveAt(saves, i)
      /\ updatingPeriodicity' = FALSE
      /\ IF ok
         THEN /\ store' = [store EXCEPT ![sv.uuid].periodicity = stored]
              /\ error' = error
              /\ events' = events
         ELSE /\ payload = NULL
              /\ events < MaxEvents
              /\ events' = events + 1
              /\ store' = store
              /\ error' = "Failed to update periodicity."
      /\ IF reapply
         THEN /\ data' = [data EXCEPT !.rows = applied.data]
              /\ selectedNumber' = applied.detail
              /\ dataCacheRef' = applied.cache
              /\ dataCache' = setDataCache(applied.cache)
              /\ periodicityDraft' = final
         ELSE UNCHANGED <<data, selectedNumber, cacheVars, periodicityDraft>>
      /\ lastOp' = [Op(IF ok THEN "saveOk" ELSE "saveFailed") EXCEPT
                      !.uuid = sv.uuid, !.before = sv.before]
      /\ UNCHANGED <<queryVars, page, pageSize, totalCount, totalPages, loading,
                     deletingVatNumber, menuVars, debounceTimer, loads, chains, deletes,
                     actions, fetched>>

removeFromItemsKeepsAll(items, uuid) == items

\* items.filter(item => item.uuid !== uuid)
RECURSIVE removeFromItems(_, _)
removeFromItems(items, uuid) ==
  IF items = <<>> THEN <<>>
  ELSE (IF Head(items).uuid = uuid THEN <<>> ELSE <<Head(items)>>)
         \o removeFromItems(Tail(items), uuid)

\* lines 898-901: nextCache, built from dataCacheRef.current
RemovedFromCache(cacheRef, uuid) ==
  [p \in DOMAIN cacheRef |-> [cacheRef[p] EXCEPT !.rows = removeFromItems(@, uuid)]]

\* lines 984-1006: softDeleteVatNumber up to the store update it awaits; the
\* handler keeps the totalCount, pageSize and page of the render that created it
softDeleteVatNumber(confirmed) ==
  /\ selectedNumber # <<>>
  /\ ~deletingVatNumber
  /\ events < MaxEvents
  /\ events' = events + 1
  /\ IF confirmed
     THEN /\ deletingVatNumber' = TRUE
          /\ error' = NULL
          /\ deletes' = Append(deletes,
                               [uuid |-> selectedNumber[1].uuid,
                                cl |-> Closure(QueryState, pageSize, totalPages, page, totalCount)])
          /\ lastOp' = [Op("softDeleteVatNumber") EXCEPT !.uuid = selectedNumber[1].uuid]
     ELSE /\ lastOp' = [Op("softDeleteDeclined") EXCEPT !.uuid = selectedNumber[1].uuid]
          /\ UNCHANGED <<deletingVatNumber, error, deletes>>
  /\ UNCHANGED <<store, queryVars, page, pageSize, totalCount, totalPages, data, loading,
                 cacheVars, selectedNumber, periodicityDraft, updatingPeriodicity, menuVars,
                 debounceTimer, loads, chains, saves, actions, fetched>>

Max(a, b) == IF a > b THEN a ELSE b

StoreUpdateNeverThrows(ok) == FALSE

\* line 1018: if (error) throw error
StoreUpdateThrows(ok) == ~ok

\* lines 1018-1024 with removeMonitoredNumberLocally (891-916): the store update
\* is answered; after a change of page the page effect of the next render runs
DeleteComplete(i, ok) ==
  LET dl == deletes[i]
      nextStore == [store EXCEPT ![dl.uuid].status = "deleted",
                                 ![dl.uuid].periodicity = "inactive"]
      nextCache == RemovedFromCache(dataCacheRef, dl.uuid)
      nextTotalCount == Max(0, dl.cl.totalCount - 1)
      nextTotalPages == Max(1, CeilDiv(nextTotalCount, dl.cl.pageSize))
      nextPage == IF dl.cl.page > nextTotalPages THEN nextTotalPages ELSE page
  IN  \E started \in {IF nextPage # page
                       THEN loadPageData(nextPage, FALSE,
                                         Closure(QueryState, pageSize, nextTotalPages, nextPage,
                                                 nextTotalCount),
                                         nextCache, nextStore)
                       ELSE NothingStarted} :
      /\ deletes' = RemoveAt(deletes, i)
      /\ deletingVatNumber' = FALSE
      /\ store' = IF ok THEN nextStore ELSE store
      /\ IF ~StoreUpdateThrows(ok)
         THEN /\ Len(loads) + Len(started.load) <= MaxLoads
              /\ Len(chains) + Len(RunningOf(started)) <= MaxChains
              /\ data' = IF started.hit THEN nextCache[nextPage]
                         ELSE [data EXCEPT !.rows = removeFromItems(@, dl.uuid)]
              /\ selectedNumber' = IF selectedNumber # <<>> /\ selectedNumber[1].uuid = dl.uuid
                                   THEN <<>> ELSE selectedNumber
              /\ dataCacheRef' = nextCache
              /\ dataCache' = setDataCache(nextCache)
              /\ totalCount' = nextTotalCount
              /\ totalPages' = nextTotalPages
              /\ page' = nextPage
              /\ loading' = IF nextPage = page THEN loading ELSE ~started.hit
              /\ error' = IF started.load # <<>> THEN NULL ELSE error
              /\ loads' = loads \o started.load
              /\ chains' = chains \o RunningOf(started)
              /\ events' = events
              /\ lastOp' = [Op(IF ok THEN "deleteOk" ELSE "deleteFailed") EXCEPT
                              !.uuid = dl.uuid, !.page = nextPage,
                              !.requested = RequestedBy(started),
                              !.prefetch = SummaryOf(started),
                              !.count = totalCount, !.pageSize = pageSize,
                              !.before = [data |-> data.rows, cache |-> dataCacheRef,
                                          detail |-> selectedNumber]]
         ELSE /\ events < MaxEvents
              /\ events' = events + 1
              /\ error' = "Failed to delete VAT number."
              /\ lastOp' = [Op("deleteFailed") EXCEPT !.uuid = dl.uuid]
              /\ UNCHANGED <<data, selectedNumber, cacheVars, totalCount, totalPages,
                             page, loading, loads, chains>>
      /\ UNCHANGED <<queryVars, pageSize, periodicityDraft, updatingPeriodicity, menuVars,
                     debounceTimer, saves, actions, fetched>>

\* the values chosen in the periodicity control
DraftValues == {"daily", "weekly"}

NextMutate ==
  \/ \E i \in 1..MaxPageSize : setSelectedNumber(i)
  \/ \E v \in DraftValues : setPeriodicityDraft(v)
  \/ savePeriodicity
  \/ \E i \in DOMAIN saves, ok \in BOOLEAN, payload \in PatchPayloads : SaveComplete(i, ok, payload)
  \/ \E confirmed \in BOOLEAN : softDeleteVatNumber(confirmed)
  \/ \E i \in DOMAIN deletes, ok \in BOOLEAN : DeleteComplete(i, ok)
  \/ handleNextPage
  \/ \E s \in PageSizeOptions : setPageSize(s)
  \/ \E i \in DOMAIN loads, ok \in BOOLEAN : LoadComplete(i, ok)
  \/ \E c \in DOMAIN chains, ok \in BOOLEAN : PrefetchComplete(c, ok)

SpecMutate == Init /\ [][NextMutate]_vars

\* ------------------------------------------------------------------ context menu

\* lines 1045-1065; the overlay of an open menu covers the rows
openVatContextMenu(i) ==
  /\ i \in DOMAIN data.rows
  /\ vatContextMenu = <<>>
  /\ vatContextMenu' = <<data.rows[i]>>
  /\ lastOp' = [Op("openVatContextMenu") EXCEPT !.uuid = data.rows[i].uuid]
  /\ UNCHANGED <<store, queryVars, pageVars, cacheVars, detailVars, actionToast, contextAction,
                 asyncVars, fetched, events>>

\* a click on the overlay, or Escape: setVatContextMenu(null)
closeVatContextMenu ==
  /\ vatContextMenu # <<>>
  /\ vatContextMenu' = <<>>
  /\ lastOp' = Op("closeVatContextMenu")
  /\ UNCHANGED <<store, queryVars, pageVars, cacheVars, detailVars, actionToast, contextAction,
                 asyncVars, fetched, events>>

\* the timer of the effect of lines 311-318: setActionToast(null)
ActionToastTimeout ==
  /\ actionToast # <<>>
  /\ actionToast' = <<>>
  /\ lastOp' = Op("actionToastTimeout")
  /\ UNCHANGED <<store, queryVars, pageVars, cacheVars, detailVars, vatContextMenu,
                 contextAction, asyncVars, fetched, events>>

ContextActionGateOpen(pending) == FALSE

\* lines 1112 and 1131: `contextAction` is truthy
ContextActionGate(pending) == pending # NULL

\* what an invocation the gate turns away leaves behind: nothing
Rejected(name) ==
  /\ lastOp' = [Op(name) EXCEPT !.uuid = vatContextMenu[1].uuid, !.rejected = TRUE]
  /\ UNCHANGED <<store, queryVars, pageVars, cacheVars, detailVars, menuVars, asyncVars, fetched>>

\* lines 1110-1118: up to the check-record lookup of downloadCertificateForRow
handleDownloadFromContextMenu ==
  /\ vatContextMenu # <<>>
  /\ events < MaxEvents
  /\ events' = events + 1
  /\ IF ContextActionGate(contextAction)
     THEN Rejected("handleDownloadFromContextMenu")
     ELSE /\ Len(actions) < MaxActions
          /\ contextAction' = "download"
          /\ error' = NULL
          /\ actions' = Append(actions, [kind |-> "download", stage |-> "lookup",
                                         target |-> vatContextMenu[1],
                                         cl |-> Closure(QueryState, pageSize, totalPages, page,
                                                        totalCount)])
          /\ lastOp' = [Op("handleDownloadFromContextMenu") EXCEPT !.uuid = vatContextMenu[1].uuid]
          /\ UNCHANGED <<store, queryVars, page, pageSize, totalCount, totalPages, data, loading,
                         cacheVars, detailVars, actionToast, vatContextMenu, debounceTimer,
                         loads, chains, saves, deletes, fetched>>

\* lines 1129-1143: up to the POST of runManualVatCheck
handleForceCheckFromContextMenu(confirmed) ==
  /\ vatContextMenu # <<>>
  /\ events < MaxEvents
  /\ events' = events + 1
  /\ IF ContextActionGate(contextAction)
     THEN Rejected("handleForceCheckFromContextMenu")
     ELSE IF ~confirmed
     THEN /\ lastOp' = [Op("forceCheckDeclined") EXCEPT !.uuid = vatContextMenu[1].uuid]
          /\ UNCHANGED <<store, queryVars, pageVars, cacheVars, detailVars, menuVars, asyncVars,
                         fetched>>
     ELSE /\ Len(actions) < MaxActions
          /\ store[vatContextMenu[1].uuid].number_of_checks < MaxChecks
          /\ contextAction' = "force"
          /\ error' = NULL
          /\ actions' = Append(actions, [kind |-> "force", stage |-> "recheck",
                                         target |-> vatContextMenu[1],
                                         cl |-> Closure(QueryState, pageSize, totalPages, page,
                                                        totalCount)])
          /\ lastOp' = [Op("handleForceCheckFromContextMenu") EXCEPT
                          !.uuid = vatContextMenu[1].uuid]
          /\ UNCHANGED <<store, queryVars, page, pageSize, totalCount, totalPages, data, loading,
                         cacheVars, detailVars, actionToast, vatContextMenu, debounceTimer,
                         loads, chains, saves, deletes, fetched>>

HasCheckAlways(uuid) == TRUE

\* fetchLatestCheckForVat (1027-1043): is there a check row of this entry
HasCheck(uuid) == \E i \in DOMAIN ChecksTable : ChecksTable[i].vat_number_uuid = uuid

ActionFailsKeepsGate(i, message) ==
  /\ error' = message
  /\ contextAction' = contextAction
  /\ actions' = RemoveAt(actions, i)
  /\ UNCHANGED <<actionToast, vatContextMenu>>

\* the handler's catch and finally: setError(message); setContextAction(null)
ActionFails(i, message) ==
  /\ error' = message
  /\ contextAction' = NULL
  /\ actions' = RemoveAt(actions, i)
  /\ UNCHANGED <<actionToast, vatContextMenu>>

\* lines 1084-1087: the check-record lookup is answered
LookupComplete(i, ok) ==
  /\ actions[i].stage = "lookup"
  /\ IF ok /\ HasCheck(actions[i].target.uuid)
     THEN /\ actions' = [actions EXCEPT ![i].stage = "certificate"]
          /\ lastOp' = [Op("lookupFound") EXCEPT !.uuid = actions[i].target.uuid]
          /\ UNCHANGED <<error, menuVars, events>>
     ELSE /\ ok \/ events < MaxEvents
          /\ events' = IF ok THEN events ELSE events + 1
          /\ ActionFails(i, IF ok THEN "No checks performed yet."
                            ELSE "Failed to download certificate.")
          /\ lastOp' = [Op(IF ok THEN "lookupEmpty" ELSE "lookupFailed") EXCEPT
                          !.uuid = actions[i].target.uuid]
  /\ UNCHANGED <<store, queryVars, page, pageSize, totalCount, totalPages, data, loading,
                 cacheVars, detailVars, debounceTimer, loads, chains, saves, deletes, fetched>>

\* lines 1089-1107 and 1119-1125: downloadVatCertificatePdf returns or throws
CertificateComplete(i, ok) ==
  /\ actions[i].stage = "certificate"
  /\ IF ok
     THEN /\ actionToast' = << [kind |-> "download", uuid |-> actions[i].target.uuid] >>
          /\ vatContextMenu' = <<>>
          /\ contextAction' = NULL
          /\ actions' = RemoveAt(actions, i)
          /\ UNCHANGED <<error, events>>
     ELSE /\ events < MaxEvents
          /\ events' = events + 1
          /\ ActionFails(i, "Failed to download certificate.")
  /\ lastOp' = [Op(IF ok THEN "certificateOk" ELSE "certificateFailed") EXCEPT
                  !.uuid = actions[i].target.uuid]
  /\ UNCHANGED <<store, queryVars, page, pageSize, totalCount, totalPages, data, loading,
                 cacheVars, detailVars, debounceTimer, loads, chains, saves, deletes, fetched>>

\* lines 1141-1144: the Recheck Service answers; on success the entry has one
\* more check, the cache is cleared and loadPageData(page, true) is awaited
RecheckComplete(i, ok) ==
  /\ actions[i].stage = "recheck"
  /\ LET act == actions[i]
         checked == [store EXCEPT ![act.target.uuid].number_of_checks =
                                    IF @ = NullInt THEN 1 ELSE @ + 1]
     IN  \E started \in {loadPageData(act.cl.page, TRUE, act.cl, clearCache(dataCacheRef),
                                       checked)} :
         IF ok
         THEN /\ Len(loads) + Len(started.load) <= MaxLoads
              /\ store' = checked
              /\ dataCacheRef' = clearCache(dataCacheRef)
              /\ dataCache' = setDataCache(clearCache(dataCache))
              /\ loading' = TRUE
              /\ error' = NULL
              /\ loads' = loads \o << [started.load[1] EXCEPT !.awaitedBy = "force"] >>
              /\ actions' = [actions EXCEPT ![i].stage = "reload"]
              /\ lastOp' = [Op("recheckOk") EXCEPT !.uuid = act.target.uuid,
                                                   !.page = act.cl.page,
                                                   !.requested = RequestedBy(started)]
              /\ UNCHANGED <<menuVars, events>>
         ELSE /\ events < MaxEvents
              /\ events' = events + 1
              /\ ActionFails(i, "Failed to run a manual VAT check.")
              /\ lastOp' = [Op("recheckFailed") EXCEPT !.uuid = act.target.uuid]
              /\ UNCHANGED <<store, cacheVars, loading, loads>>
  /\ UNCHANGED <<queryVars, page, pageSize, totalCount, totalPages, data, detailVars,
                 debounceTimer, chains, saves, deletes, fetched>>

NextMenu ==
  \/ \E i \in 1..MaxPageSize : openVatContextMenu(i)
  \/ closeVatContextMenu
  \/ ActionToastTimeout
  \/ handleDownloadFromContextMenu
  \/ \E confirmed \in BOOLEAN : handleForceCheckFromContextMenu(confirmed)
  \/ \E i \in DOMAIN actions, ok \in BOOLEAN : LookupComplete(i, ok)
  \/ \E i \in DOMAIN actions, ok \in BOOLEAN : CertificateComplete(i, ok)
  \/ \E i \in DOMAIN actions, ok \in BOOLEAN : RecheckComplete(i, ok)
  \/ handleNextPage
  \/ \E s \in PageSizeOptions : setPageSize(s)
  \/ \E i \in DOMAIN loads, ok \in BOOLEAN : LoadComplete(i, ok)
  \/ \E c \in DOMAIN chains, ok \in BOOLEAN : PrefetchComplete(c, ok)

SpecMenu == Init /\ [][NextMenu]_vars

\* ------------------------------------------------------------------ the services answer

LookupAnswers == \E i \in DOMAIN actions, ok \in BOOLEAN : LookupComplete(i, ok)

CertificateAnswers == \E i \in DOMAIN actions, ok \in BOOLEAN : CertificateComplete(i, ok)

RecheckAnswers == \E i \in DOMAIN actions, ok \in BOOLEAN : RecheckComplete(i, ok)

LoadAnswers == \E i \in DOMAIN loads, ok \in BOOLEAN : LoadComplete(i, ok)

PrefetchAnswers == \E c \in DOMAIN chains, ok \in BOOLEAN : PrefetchComplete(c, ok)

\* the guards of RecheckComplete: some step of RecheckAnswers can be taken
RecheckCanAnswer ==
  \E i \in DOMAIN actions :
    /\ actions[i].stage = "recheck"
    /\ \/ Len(loads) + 1 <= MaxLoads
       \/ events < MaxEvents

\* the neighbour-prefetch loop LoadComplete starts for the load ld
ChainAfterLoad(ld) ==
  prefetchNeighbors(ld.targetPage, ComputedTotalPages(ld.result.count, ld.pageSize), ld.q,
                    ld.pageSize,
                    updateCache(dataCacheRef, ld.targetPage,
                                PageData(ld.result.data, ld.q, ld.pageSize, ld.targetPage)),
                    store)

\* the guards of LoadComplete: some step of LoadAnswers can be taken
LoadCanAnswer ==
  \E i \in DOMAIN loads :
    \/ /\ ~loads[i].result.thrown
       /\ Len(chains) + Len(Running(ChainAfterLoad(loads[i]))) <= MaxChains
    \/ /\ loads[i].result.storeQueried \/ loads[i].result.thrown
       /\ events < MaxEvents

\* the guards of PrefetchComplete: some step of PrefetchAnswers can be taken
PrefetchCanAnswer ==
  \E c \in DOMAIN chains :
    \/ ~chains[c].result.thrown
    \/ (chains[c].result.storeQueried \/ chains[c].result.thrown) /\ events < MaxEvents

\* every request of a context-menu action is answered (the awaits of lines 1084,
\* 1090, 1141 and 1145 return or throw), every page request is answered, and the
\* timer of the toast effect (line 316) fires. Weak fairness of RecheckAnswers,
\* LoadAnswers and PrefetchAnswers is written out, with their guards as the
\* enabling condition
SpecMenuLive ==
  /\ Init
  /\ [][NextMenu]_vars
  /\ WF_vars(LookupAnswers)
  /\ WF_vars(CertificateAnswers)
  /\ WF_vars(ActionToastTimeout)
  /\ ([]<>~RecheckCanAnswer \/ []<><<RecheckAnswers>>_vars)
  /\ ([]<>~LoadCanAnswer \/ []<><<LoadAnswers>>_vars)
  /\ ([]<>~PrefetchCanAnswer \/ []<><<PrefetchAnswers>>_vars)

\* ================================================================== properties

\* ------------------------------------------------------------------ C1

\* C1: a primary page fetch or neighbour prefetch issued under an earlier
\* filter state or page size, completing after that state changed, has its
\* result discarded: it writes no rows into the Page Cache and replaces
\* neither the displayed rows nor the total count nor the total pages.
C1_StaleResultDiscarded ==
  [][ ( /\ lastOp'.op \in {"loadOk", "prefetchOk"}
        /\ (lastOp'.source.q # QueryState \/ lastOp'.source.pageSize # pageSize) )
      => UNCHANGED <<data, totalCount, totalPages, dataCache, dataCacheRef>> ]_vars

\* ------------------------------------------------------------------ C2

FilterOps == {"setSearch", "handleFilterChange", "setRequesterFilter", "setStatusFilter"}

NavOps == {"handlePrevPage", "handleNextPage", "handlePageInputSubmit"}

\* C3: navigating to a page P that is in the Page Cache issues no request for
\* P, displays exactly the cached rows of P and leaves the loading flag false.
C3_CacheHitRendersCachedRows ==
  [][ (lastOp'.op \in NavOps /\ page' # page /\ page' \in DOMAIN dataCacheRef)
      => /\ data' = dataCacheRef[page']
         /\ loading' = FALSE
         /\ page' \notin lastOp'.requested
         /\ loads' = loads ]_vars

\* a navigation served from the cache, which went on to prefetch a neighbour
C3_Witness ==
  /\ lastOp.op \in NavOps
  /\ lastOp.prefetch # <<>>
  /\ page = lastOp.page
  /\ page \in DOMAIN dataCacheRef
  /\ data = dataCacheRef[page]
  /\ data.rows # <<>>
  /\ lastOp.requested # {}

\* ------------------------------------------------------------------ C4

\* {P-2, P-1, P+1, P+2} intersected with [1, T]
NeighborSet(P, T) == {P - 2, P - 1, P + 1, P + 2} \cap (1..T)

ExaminedPages(summary) == {summary.examined[i].page : i \in DOMAIN summary.examined}

\* the prefetch loops of this state: those awaiting a page, and the one the last step ran
PrefetchLoops ==
  {ChainSummary(chains[c]) : c \in DOMAIN chains} \cup Range(lastOp.prefetch)

RequestedPages(summary) ==
  {summary.examined[i].page : i \in {j \in DOMAIN summary.examined : summary.examined[j].requested}}

PrefetchLoopOk(summary) ==
  /\ RequestedPages(summary) \subseteq NeighborSet(summary.origin, summary.maxPage)
  /\ \A i \in DOMAIN summary.examined :
       summary.examined[i].page \in NeighborSet(summary.origin, summary.maxPage)
         => (summary.examined[i].requested <=> ~summary.examined[i].wasCached)
  /\ summary.done => NeighborSet(summary.origin, summary.maxPage) \subseteq ExaminedPages(summary)

\* C4: after a successful load of page P with total page count T, the pages the
\* neighbour prefetch requests are exactly those of {P-2,P-1,P+1,P+2} within
\* [1,T] that are not cached when the loop reaches them; after a network fetch
\* T is computed from that fetch's count, after a cache hit it is totalPages.
C4_PrefetchBoundedness ==
  /\ \A summary \in PrefetchLoops : PrefetchLoopOk(summary)
  /\ \A i \in DOMAIN lastOp.prefetch :
       /\ lastOp.op = "loadOk" =>
            /\ lastOp.prefetch[i].origin = lastOp.page
            /\ lastOp.prefetch[i].maxPage =
                 (IF lastOp.count = 0 THEN 1
                  ELSE (lastOp.count + lastOp.pageSize - 1) \div lastOp.pageSize)
       /\ lastOp.op \in NavOps =>
            /\ lastOp.prefetch[i].origin = page
            /\ lastOp.prefetch[i].maxPage = totalPages

\* ------------------------------------------------------------------ C5

\* the periodicities the rows of entry E have in a page array
PeriodicitiesOf(rows, E) == {rows[i].periodicity : i \in {j \in DOMAIN rows : rows[j].uuid = E}}

\* every row of E in `now` has the periodicity E had in `before`, when E was there
SameAsBefore(now, before, E) ==
  \A v \in PeriodicitiesOf(now, E) : \A w \in PeriodicitiesOf(before, E) : v = w

OthersOf(rows, E) == SelectSeq(rows, LAMBDA r : r.uuid # E)

Holds(rows, E) == \E i \in DOMAIN rows : rows[i].uuid = E

\* C6: a successful soft delete of entry E leaves E neither in the displayed
\* page nor in any cached page, clears the detail record if it showed E, and
\* keeps every other entry where it was, in the same order.
C6_SoftDeleteRemovesEntry ==
  [][ lastOp'.op = "deleteOk" =>
        LET E == lastOp'.uuid
        IN  /\ ~Holds(data'.rows, E)
            /\ \A p \in DOMAIN dataCacheRef' : ~Holds(dataCacheRef'[p].rows, E)
            /\ \A p \in DOMAIN dataCache' : ~Holds(dataCache'[p].rows, E)
            /\ DOMAIN dataCacheRef' = DOMAIN dataCacheRef
            /\ \A p \in DOMAIN dataCacheRef :
                 dataCacheRef'[p].rows = OthersOf(dataCacheRef[p].rows, E)
            /\ page' = page => data'.rows = OthersOf(data.rows, E)
            /\ page' # page /\ page' \in DOMAIN dataCacheRef =>
                 data'.rows = OthersOf(dataCacheRef[page'].rows, E)
            /\ selectedNumber' = IF Holds(selectedNumber, E) THEN <<>> ELSE selectedNumber
    ]_vars

\* the delete succeeded while E was displayed beside another entry, was cached
\* on a page with another entry, and was open in the detail record
C6_Witness ==
  /\ lastOp.op = "deleteOk"
  /\ Holds(lastOp.before.data, lastOp.uuid)
  /\ Len(lastOp.before.data) > 1
  /\ Holds(lastOp.before.detail, lastOp.uuid)
  /\ \E p \in DOMAIN lastOp.before.cache :
       /\ Holds(lastOp.before.cache[p].rows, lastOp.uuid)
       /\ Len(lastOp.before.cache[p].rows) > 1
  /\ selectedNumber = <<>>
  /\ Len(data.rows) = 1
  /\ store[lastOp.uuid].status = "deleted"

\* ------------------------------------------------------------------ C7

ContextMenuHandlers == {"handleDownloadFromContextMenu", "handleForceCheckFromContextMenu"}

\* C10: at most one context-menu row action is in flight; while one is
\* pending, an invocation of either handler, for the same or another row, is
\* turned away before the check-record lookup, the Certificate Service or the
\* Recheck Service is called.
C10_SingleFlightRowAction ==
  [][ /\ Len(actions') <= 1
      /\ (lastOp'.op \in ContextMenuHandlers /\ actions # <<>>)
           => /\ lastOp'.rejected
              /\ UNCHANGED <<actions, loads, chains, store, contextAction>>
    ]_vars

\* an invocation for another row was turned away while an action was pending
C10_Witness ==
  /\ lastOp.op \in ContextMenuHandlers
  /\ lastOp.rejected
  /\ Len(actions) = 1
  /\ actions[1].target.uuid # lastOp.uuid
  /\ contextAction = actions[1].kind

\* ------------------------------------------------------------------ C8

SearchActive == Len(sanitizeSearchTerm(search)) > 0

EntityActive == Len(Trim(filters["entity_name"])) > 0

\* the identifiers a term matches in the two collections, as a set
IdsOfTerm(term, mode, vatFailed, chkFailed) ==
  Range(fetchMatchingVatUuidsFromVatNumbers(term, mode, vatFailed))
    \cup Range(fetchMatchingVatUuidsFromChecks(term, chkFailed))

SearchIds(errs) ==
  IdsOfTerm(sanitizeSearchTerm(search), "search", errs.searchVat, errs.searchChk)

EntityIds(errs) ==
  IdsOfTerm(sanitizeSearchTerm(Trim(filters["entity_name"])), "entity",
            errs.entityVat, errs.entityChk)

ResolutionYieldsNothing(errs) ==
  \/ SearchActive /\ SearchIds(errs) = {}
  \/ EntityActive /\ EntityIds(errs) = {}
  \/ SearchActive /\ EntityActive /\ SearchIds(errs) \cap EntityIds(errs) = {}

\* C8: when a search term or an entity-name filter is active and a resolution
\* phase yields no identifier (nothing matches in both collections, or the two
\* terms' sets do not intersect), fetchRawData returns no rows and a total
\* count of zero, and the Record Store query is not sent.
C8_SearchShortCircuit ==
  \A i \in DOMAIN fetched :
    ResolutionYieldsNothing(fetched[i].errs) =>
      /\ fetched[i].result.data = <<>>
      /\ fetched[i].result.count = 0
      /\ ~fetched[i].result.storeQueried

\* both terms match something, the two sets are disjoint, the requester selector lets the query through
C8_Witness ==
  /\ fetched # <<>>
  /\ requesterFilter = AllRequesters
  /\ SearchActive /\ EntityActive
  /\ SearchIds(fetched[1].errs) # {}
  /\ EntityIds(fetched[1].errs) # {}
  /\ SearchIds(fetched[1].errs) \cap EntityIds(fetched[1].errs) = {}
  /\ fetched[1].errs = NoLookupErrors
  /\ ~fetched[1].result.storeQueried

\* ------------------------------------------------------------------ C9

\* ^([A-Z]{2})([A-Z0-9]{2,14})$
MatchesRequesterPattern(s) ==
  /\ Len(s) \in 4..16
  /\ \A i \in 1..2 : s[i] \in Range(UpperAlpha)
  /\ \A i \in 3..Len(s) : s[i] \in Range(UpperAlpha) \cup DigitChars

RequesterRejected ==
  /\ requesterFilter # AllRequesters
  /\ ~MatchesRequesterPattern(ToUpperCase(SelectSeq(requesterFilter, IsAlnumChar)))

PageStoreOps == {"loadOk", "prefetchOk"}

\* the detail record shows row r as the cached page holds it
DetailAgrees(r) ==
  /\ selectedNumber # <<>>
  /\ selectedNumber[1].uuid = r.uuid
  /\ selectedNumber[1].periodicity = r.periodicity

\* the periodicity changes applied to the cached page `before` are still in `after`
KeepsPeriodicities(before, after) ==
  \A i \in DOMAIN before : \A j \in DOMAIN after :
    (DetailAgrees(before[i]) /\ after[j].uuid = before[i].uuid)
      => after[j].periodicity = before[i].periodicity

AllHave(rows, E, v) == \A w \in PeriodicitiesOf(rows, E) : w = v

NoDuplicates(seq) == \A i, j \in DOMAIN seq : seq[i] = seq[j] => i = j

\* the allow-list is the identifiers of S, each once
ListsExactly(seq, S) == Range(seq) = S /\ NoDuplicates(seq)

\* C13: the allow-list resolved for one term holds, each once, the identifiers
\* returned by the entry-collection lookup and by the check-record lookup of
\* that term; when a search term and an entity-name filter are both active the
\* allow-list of the call is the intersection of the two terms' sets (and the
\* set of the one active term otherwise).
C13_UnionThenIntersection ==
  \A i \in DOMAIN fetched :
    LET errs == fetched[i].errs
        allowList == fetched[i].constrainedUuids
    IN  /\ SearchActive =>
             ListsExactly(resolveVatUuidsForSearchTerm(sanitizeSearchTerm(search), errs),
                          SearchIds(errs))
        /\ EntityActive =>
             ListsExactly(resolveVatUuidsForEntityFilter(
                            sanitizeSearchTerm(Trim(filters["entity_name"])), errs),
                          EntityIds(errs))
        /\ SearchActive /\ EntityActive =>
             allowList[1] /\ ListsExactly(allowList[2], SearchIds(errs) \cap EntityIds(errs))
        /\ SearchActive /\ ~EntityActive =>
             allowList[1] /\ ListsExactly(allowList[2], SearchIds(errs))
        /\ ~SearchActive /\ EntityActive =>
             allowList[1] /\ ListsExactly(allowList[2], EntityIds(errs))
        /\ ~SearchActive /\ ~EntityActive => ~allowList[1]

\* both terms are active, both lookups of the search term return entry 1, and
\* the intersection keeps some but not all identifiers of the search term
C13_Witness ==
  /\ fetched # <<>>
  /\ fetched[1].errs = NoLookupErrors
  /\ SearchActive /\ EntityActive
  /\ Range(fetchMatchingVatUuidsFromVatNumbers(sanitizeSearchTerm(search), "search", FALSE))
       \cap Range(fetchMatchingVatUuidsFromChecks(sanitizeSearchTerm(search), FALSE)) # {}
  /\ fetched[1].constrainedUuids[2] # <<>>
  /\ Range(fetched[1].constrainedUuids[2]) # SearchIds(NoLookupErrors)
  /\ fetched[1].result.storeQueried

\* ------------------------------------------------------------------ C14

\* the toast of a completed manual recheck appears in this step
ForceCheckReportsSuccess ==
  /\ actionToast' # actionToast
  /\ actionToast' # <<>>
  /\ actionToast'[1].kind = "force"

\* C14: when the Recheck Service has answered a manual recheck with success,
\* the Page Cache is cleared and a load of the current page is issued to the
\* Record Store while the action stays in flight; the action completes and
\* reports success only in the step in which that load returns.
C14_RecheckReloadsCurrentPage ==
  [][ /\ lastOp'.op = "recheckOk" =>
           /\ dataCacheRef' = EmptyCache
           /\ dataCache' = EmptyCache
           /\ Len(loads') = Len(loads) + 1
           /\ loads'[Len(loads')].targetPage = page
           /\ loads'[Len(loads')].awaitedBy = "force"
           /\ contextAction' = "force"
           /\ actionToast' = actionToast
      /\ ForceCheckReportsSuccess =>
           /\ lastOp'.op \in {"loadOk", "loadFailed"}
           /\ lastOp'.page = page
           /\ contextAction' = NULL
    ]_vars

\* ------------------------------------------------------------------ C15

\* the updates of entry E awaiting their answer
PendingSavesOf(pending, E) == {i \in DOMAIN pending : pending[i].uuid = E}

C16_FailedSoftDeleteChangesNothing ==
  [][ /\ lastOp'.op = "deleteFailed" =>
           /\ UNCHANGED <<data, dataCache, dataCacheRef, selectedNumber, totalCount,
                          totalPages, page>>
           /\ error' # NULL
      /\ lastOp'.op = "softDeleteVatNumber" =>
           UNCHANGED <<data, dataCache, dataCacheRef, selectedNumber, totalCount,
                       totalPages, page, store>>
    ]_vars

\* the update of an entry that is displayed, cached and open has failed
C16_Witness ==
  /\ lastOp.op = "deleteFailed"
  /\ error = "Failed to delete VAT number."
  /\ ~deletingVatNumber
  /\ Holds(selectedNumber, lastOp.uuid)
  /\ Holds(data.rows, lastOp.uuid)
  /\ \E p \in DOMAIN dataCacheRef : Holds(dataCacheRef[p].rows, lastOp.uuid)
  /\ store[lastOp.uuid].status # "deleted"
  /\ totalCount = NumEntries

\* ------------------------------------------------------------------ C17

\* a call of fetchRawData for page 1 under the current filters and page size is awaited
FreshLoadOfPageOne(pending) ==
  /\ pending # <<>>
  /\ pending[Len(pending)].targetPage = 1
  /\ pending[Len(pending)].pageSize = pageSize
  /\ pending[Len(pending)].q = QueryState

\* C17: a change of the page size clears the Page Cache, makes page 1 the
\* current page and issues a fetch of page 1 with the new page size, nothing
\* being served from the cache, whether the current page was 1 or not.
C17_PageSizeChangeReloadsPageOne ==
  [][ lastOp'.op = "setPageSize" =>
        /\ pageSize' # pageSize
        /\ dataCacheRef' = EmptyCache
        /\ dataCache' = EmptyCache
        /\ page' = 1
        /\ Len(loads') = Len(loads) + 1
        /\ FreshLoadOfPageOne(loads)'
        /\ lastOp'.requested = {1}
        /\ loading'
        /\ data' = data
    ]_vars

\* the page size changed while page 2 was current and page 1 was in the cache
C17_Witness ==
  /\ lastOp.op = "setPageSize"
  /\ lastOp.source.page = 2
  /\ data.source.page = 2
  /\ lastOp.source.pageSize # pageSize
  /\ page = 1
  /\ dataCacheRef = EmptyCache
  /\ FreshLoadOfPageOne(loads)

\* ------------------------------------------------------------------ C18

\* C18: a change of the search term, a column filter, the requester selector
\* or the status selector starts no query cycle by itself: it leaves the cache,
\* the page and the requests in flight alone and keeps one timer pending, the
\* one of the latest change.  When the timer fires, one query cycle runs: the
\* cache is cleared once and one fetch of page 1 is issued, under the final
\* filter state, whatever the current page was.
C18_DebouncedSingleQueryCycle ==
  [][ /\ lastOp'.op \in FilterOps =>
           /\ UNCHANGED <<loads, chains, dataCache, dataCacheRef, page>>
           /\ Len(debounceTimer') = 1
           /\ debounceTimer'[1].q = QueryState'
      /\ lastOp'.op = "debounce" =>
           /\ debounceTimer' = <<>>
           /\ dataCacheRef' = EmptyCache
           /\ dataCache' = EmptyCache
           /\ page' = 1
           /\ Len(loads') = Len(loads) + 1
           /\ loads'[Len(loads')].targetPage = 1
           /\ loads'[Len(loads')].q = QueryState
    ]_vars

\* ------------------------------------------------------------------ C19

\* C19: a neighbour prefetch request that fails sets no page-level error,
\* changes neither the displayed rows nor the loading flag nor the counts, and
\* stores nothing: the Page Cache is as it was, the failed page absent from
\* it when it was absent.
C19_PrefetchFailureIsSilent ==
  [][ lastOp'.op = "prefetchFailed" =>
        /\ UNCHANGED <<error, data, loading, totalCount, totalPages, page>>
        /\ UNCHANGED <<dataCache, dataCacheRef>>
        /\ lastOp'.page \notin DOMAIN dataCacheRef => lastOp'.page \notin DOMAIN dataCacheRef'
    ]_vars

\* the prefetch of a page failed while rows were displayed without error, and
\* the loop went on to request the next neighbour
C19_Witness ==
  /\ lastOp.op = "prefetchFailed"
  /\ lastOp.page \notin DOMAIN dataCacheRef
  /\ lastOp.requested # {}
  /\ error = NULL
  /\ ~loading
  /\ data.rows # <<>>

\* ------------------------------------------------------------------ C20

\* C20: when the Record Store query of a primary page load fails, the failure
\* becomes the page-level error, no request is issued in its place, and the
\* displayed rows, the total count, the total pages and the Page Cache (mirror
\* and state) are as they were.
C20_LoadFailureKeepsPreviousPage ==
  [][ lastOp'.op = "loadFailed" =>
        /\ error' # NULL
        /\ ~loading'
        /\ UNCHANGED <<data, totalCount, totalPages, dataCache, dataCacheRef>>
        /\ Len(loads') = Len(loads) - 1
        /\ chains' = chains
        /\ lastOp'.requested = {}
    ]_vars

\* the load of another page than the displayed one has failed: the rows of
\* the previous page stay, with the counts and the cache of the earlier load
C20_Witness ==
  /\ lastOp.op = "loadFailed"
  /\ error = "Fetch error"
  /\ ~loading
  /\ loads = <<>>
  /\ data.rows # <<>>
  /\ data.source.page # lastOp.page
  /\ page = lastOp.page
  /\ totalCount = NumEntries
  /\ data.source.page \in DOMAIN dataCacheRef
  /\ lastOp.page \notin DOMAIN dataCacheRef

\* ------------------------------------------------------------------ C21

\* the identifiers the two lookups of the search term return when they answer
SearchIdsFromVatNumbers ==
  Range(fetchMatchingVatUuidsFromVatNumbers(sanitizeSearchTerm(search), "search", FALSE))

SearchIdsFromChecks ==
  Range(fetchMatchingVatUuidsFromChecks(sanitizeSearchTerm(search), FALSE))

EntityIdsFromVatNumbers ==
  Range(fetchMatchingVatUuidsFromVatNumbers(sanitizeSearchTerm(Trim(filters["entity_name"])),
                                            "entity", FALSE))

EntityIdsFromChecks ==
  Range(fetchMatchingVatUuidsFromChecks(sanitizeSearchTerm(Trim(filters["entity_name"])), FALSE))

\* what a term resolves to when its lookups fail as the flags say
Degraded(fromVatNumbers, vatFailed, fromChecks, chkFailed) ==
  (IF vatFailed THEN {} ELSE fromVatNumbers) \cup (IF chkFailed THEN {} ELSE fromChecks)

RuleColumns == {"number_of_checks", "created_at", "last_check_date", "country_code", "periodicity"}

\* YYYY-MM-DD naming a day of the calendar
IsCalendarDate(v) ==
  /\ isIsoDate(v)
  /\ DateMonth(v) \in 1..12
  /\ DateDay(v) \in 1..DaysInMonth(DateYear(v), DateMonth(v))

\* a non-blank value that fails the rule of its column
FailsRule(k, value) ==
  LET v == Trim(value)
  IN  /\ v # <<>>
      /\ CASE k = "number_of_checks" -> \E i \in DOMAIN v : v[i] \notin DigitChars
           [] k \in {"created_at", "last_check_date"} -> ~IsCalendarDate(v)
           [] k = "country_code" -> ~(Len(v) = 2 /\ \A i \in DOMAIN v : IsUpperChar(ToUpperChar(v[i])))
           [] k = "periodicity" -> \A p \in Periodicities : PeriodicityText[p] # ToLowerCase(v)
           [] OTHER -> FALSE

WithoutFilter(q, k) == [q EXCEPT !.filters[k] = <<>>]

\* C22: a column filter value that fails the rule of its column adds no predicate
\* and produces no error: fetchRawData returns what it returns without that filter
C22_InvalidFilterValueIsIgnored ==
  \A i \in DOMAIN fetched : \A k \in RuleColumns :
    FailsRule(k, filters[k]) =>
      /\ ~fetched[i].result.thrown
      /\ fetched[i].result =
           fetchRawData(WithoutFilter(QueryState, k), fetched[i].pageNum, pageSize, store,
                        fetched[i].errs)

\* ------------------------------------------------------------------ C23

SoftDeleted(row) == row.status = "deleted"

RowsOf(result) == {result.data[j] : j \in DOMAIN result.data}

\* C23: with a status selector other than 'deleted' the result holds no
\* soft-deleted entry, and with 'deleted' it holds only soft-deleted entries
C23_SoftDeletedOnlyUnderDeleted ==
  \A i \in DOMAIN fetched :
    IF statusFilter = "deleted"
    THEN \A row \in RowsOf(fetched[i].result) : SoftDeleted(row)
    ELSE \A row \in RowsOf(fetched[i].result) : ~SoftDeleted(row)

\* ------------------------------------------------------------------ C30

PartitionSelectors == {"pending", "inactive", "active", "deleted"}

SelectorsOf(st, u) == {sel \in PartitionSelectors : StatusPredicate(sel, st, u)}

\* C30: every entry of the store satisfies the predicate of exactly one of the
\* selectors pending, inactive, active and deleted
C30_StatusSelectorsPartition ==
  \A u \in UUIDs :
    (store[u].number_of_checks = NullInt \/ store[u].number_of_checks >= 0) =>
      Cardinality(SelectorsOf(store, u)) = 1

\* ------------------------------------------------------------------ C24

\* the entry has a CheckRecord in vat_checker_numbers_checks
OwnsCheckRecord(uuid) == \E i \in DOMAIN ChecksTable : ChecksTable[i].vat_number_uuid = uuid

\* the downloads whose request to the Certificate Service has been sent
AtCertificateService(acts) ==
  {i \in DOMAIN acts : acts[i].kind = "download" /\ acts[i].stage = "certificate"}

\* C24: a certificate download starts with the lookup of the latest CheckRecord;
\* the Certificate Service is called only in the step in which that lookup
\* returns a record; for an entry without CheckRecord the action ends with a
\* visible error and the Certificate Service is not called
C24_CertificateAfterLookup ==
  [][ /\ (lastOp'.op = "handleDownloadFromContextMenu" /\ ~lastOp'.rejected) =>
           /\ Len(actions') = Len(actions) + 1
           /\ actions'[Len(actions')].kind = "download"
           /\ actions'[Len(actions')].stage = "lookup"
           /\ actions'[Len(actions')].target.uuid = lastOp'.uuid
      /\ Cardinality(AtCertificateService(actions')) > Cardinality(AtCertificateService(actions)) =>
           /\ lastOp'.op = "lookupFound"
           /\ OwnsCheckRecord(lastOp'.uuid)
           /\ \E i \in DOMAIN actions :
                /\ actions[i].stage = "lookup"
                /\ actions[i].target.uuid = lastOp'.uuid
                /\ actions' = [actions EXCEPT ![i].stage = "certificate"]
      /\ \A i \in AtCertificateService(actions') : OwnsCheckRecord(actions'[i].target.uuid)
      /\ lastOp'.op = "lookupEmpty" =>
           /\ ~OwnsCheckRecord(lastOp'.uuid)
           /\ error' = "No checks performed yet."
           /\ contextAction' = NULL
           /\ Len(actions') = Len(actions) - 1
           /\ AtCertificateService(actions') = {}
    ]_vars

\* the lookup of an entry without CheckRecord has returned: the download ended in an error
C24_Witness ==
  /\ lastOp.op = "lookupEmpty"
  /\ ~OwnsCheckRecord(lastOp.uuid)
  /\ error = "No checks performed yet."
  /\ actions = <<>>
  /\ contextAction = NULL

\* ------------------------------------------------------------------ C25

\* a context-menu action has just finished: its handler has returned
ActionFinished == Len(actions') < Len(actions)

\* C25: a context-menu action that finishes, in success or in failure, leaves a
\* notification on screen and no context menu open, and every notification is
\* eventually dismissed
C25_OutcomeNotifiedMenuClosed ==
  /\ [][ActionFinished => (actionToast' # <<>> /\ vatContextMenu' = <<>>)]_vars
  /\ (actionToast # <<>>) ~> (actionToast = <<>>)

\* ------------------------------------------------------------------ C29

\* C29: the action-in-flight gate is held exactly while a context-menu action is
\* in flight, and a gate that is held is eventually released
C29_GateEventuallyReleased ==
  /\ []((contextAction # NULL) <=> (actions # <<>>))
  /\ (contextAction # NULL) ~> (contextAction = NULL)

\* a manual recheck that failed has released the gate
C29_Witness ==
  /\ lastOp.op = "recheckFailed"
  /\ contextAction = NULL
  /\ actions = <<>>
  /\ error = "Failed to run a manual VAT check."

\* ------------------------------------------------------------------ C26

\* C26: whenever no primary page load is in flight and no load has failed, the
\* displayed rows are rows loaded for the current page number
C26_DisplayedRowsOfCurrentPage ==
  (loads = <<>> /\ error = NULL) => data.source.page = page

\* ------------------------------------------------------------------ C27

\* C27: in every reachable state the total count is not negative, there is at
\* least one page, and the current page lies between 1 and the total pages
C27_PageWithinBounds ==
  /\ totalCount >= 0
  /\ totalPages >= 1
  /\ 1 <= page
  /\ page <= totalPages

\* ------------------------------------------------------------------ C28

\* C28: the cache mirror and the reactive cache state hold the same mapping from
\* page numbers to rows in every reachable state, whatever the order in which
\* loads, prefetches, saves and soft deletes complete
C28_CacheMirrorEqualsCacheState ==
  /\ DOMAIN dataCache = DOMAIN dataCacheRef
  /\ \A p \in DOMAIN dataCacheRef : dataCache[p] = dataCacheRef[p]

\* a failed save has rolled the periodicity back in a cache that holds pages
C28_Witness ==
  /\ lastOp.op = "saveFailed"
  /\ dataCacheRef # EmptyCache
  /\ \A p \in DOMAIN dataCacheRef : p \in DOMAIN dataCache /\ dataCache[p] = dataCacheRef[p]

====
